---- MODULE Spec2Model ----
(***************************************************************************)
(* Network-device substrate of bm_sbc: the local-IPC port device           *)
(* (virtual_port_device.cpp), its receive thread, and the composite        *)
(* gateway device (gateway_device.cpp) that wraps it together with the     *)
(* serial transport (uart_l2_transport.cpp).                               *)
(*                                                                         *)
(* The upper stack is one caller that invokes the device operations one    *)
(* at a time; the receive thread runs concurrently with it.  What the      *)
(* upper stack observes is kept next to the device state: the last call    *)
(* and its result (`last`), the callbacks delivered by the latest step     *)
(* (`out`), and the last link_change seen for each port argument           *)
(* (`lc_last`).                                                            *)
(***************************************************************************)
EXTENDS Integers, Sequences, FiniteSets, TLC

\* Number of peer slots.  15 in the source (virtual_port_device.h:83); the
\* model keeps the same comparisons against it with a smaller table.
VIRTUAL_PORT_MAX_PEERS == 2

\* Largest number of device operations the upper stack invokes in one run.
MaxOps == 3

\* Largest number of datagrams that arrive on the receive endpoint in one run.
MaxDgrams == 1

\* Minimum datagram length accepted by the receive loop: header + 14.
VIRTUAL_PORT_MIN_DGRAM_LEN == 15

\* Longest frame send accepts, and the length of the datagram header (the
\* port byte).
VIRTUAL_PORT_MAX_FRAME_LEN == 1514
VIRTUAL_PORT_DGRAM_HDR_LEN == 1

\* Longest frame the serial codec encodes.
FRAME_CODEC_MAX_L2_SIZE == 1522

\* Descriptor numbers handed out by socket()/open(): the receive socket, the
\* serial device, and the outbound socket of slot i (SendFdBase + i).
RecvFd == 3
UartFd == 4
SendFdBase == 10

Slots == 0..(VIRTUAL_PORT_MAX_PEERS - 1)

\* Port arguments the upper stack passes: 0, the IPC ports, and one above.
PortArgs == 0..(VIRTUAL_PORT_MAX_PEERS + 1)

\* Datagrams a peer (or anyone) may write to the receive endpoint:
\* a valid one, one with port byte 0, one too short, one with a port byte
\* above the table.
Dgrams ==
  { [port |-> 1, len |-> VIRTUAL_PORT_MIN_DGRAM_LEN],
    [port |-> 0, len |-> VIRTUAL_PORT_MIN_DGRAM_LEN],
    [port |-> 1, len |-> VIRTUAL_PORT_MIN_DGRAM_LEN - 1],
    [port |-> VIRTUAL_PORT_MAX_PEERS + 1, len |-> VIRTUAL_PORT_MIN_DGRAM_LEN] }

VARIABLES
  mode,        \* "ipc": the device handed up is the IPC device; "gw": the composite
  vpd_dev,     \* the NetworkDevice s_gw.vpd points at: "live" or "dangling"
  vpd_ports,   \* s_gw.vpd_ports
  l2,          \* bm_l2_init has registered the upper stack's callbacks
  active,      \* peers[i].active
  send_fd,     \* peers[i].send_fd (-1 = unopened)
  recv_fd,     \* g_vport_state.recv_fd (-1 = not bound)
  rx_running,  \* g_vport_state.rx_running
  enabled,     \* g_vport_state.enabled
  callbacks,   \* g_vport_state.callbacks: which pointers are non-NULL
  cbs,         \* s_gw.cbs: which pointers are non-NULL
  s_fd,        \* serial transport descriptor (-1 = not initialized)
  s_rx_running,\* serial transport running flag
  fds,         \* descriptors currently open in the process
  sockFile,    \* the own socket path exists on the filesystem
  inbox,       \* datagrams queued on the receive socket
  arrived,     \* number of datagrams that have arrived so far
  rxpc,        \* receive thread: "none", "check", "recv", "dropped", "cb", "exited"
  rx_fd,       \* descriptor the receive thread is blocked on in recvfrom, or -1
  rx_dg,       \* datagram the receive thread is delivering
  pc,          \* caller: "idle" or its position inside vpd_disable
  rfd,         \* vpd_disable's local snapshot of recv_fd
  ncalls,      \* number of device operations called so far
  last,        \* the latest device operation: arguments, result, returned or not
  out,         \* upward callbacks delivered by the latest step, in order
  lc_last,     \* per link_change port argument: "none", "up" or "down"
  up_at_call,  \* port arguments that were link-up when disable was last called
  codec,       \* the frame codec call under study: input, result, buffers
  uart,        \* serial receive thread: byte stream, accum, frames delivered
  mtx,         \* g_vport_state.lock: its holder, and what each thread has left
               \* to do of the operation it is in
  tx,          \* concurrent uart_l2_send calls: s_tx_mutex, each caller's
               \* position and locals, the bytes written to the serial device
  ser,         \* serial transport shutdown: s_rx_cb, the positions of the
               \* caller of deinit and of the receive thread, bytes pending
  snd,         \* a second thread of the upper stack inside vpd_send: its
               \* position and its locals (the snapshot of active and send_fd)
  thr,         \* enable and disable called from two threads: their positions
               \* and locals, s->rx_thread, every receive thread created
  duo          \* two processes that list each other as the peer of slot 0:
               \* per process its device state and what it has reported

devvars == <<active, send_fd, recv_fd, rx_running, enabled, callbacks, cbs,
             s_fd, s_rx_running, fds, sockFile>>
rxvars == <<inbox, arrived, rxpc, rx_fd, rx_dg>>
concvars == <<tx, ser, snd, thr, duo>>
sidevars == <<codec, uart, mtx, concvars>>
vars == <<mode, vpd_dev, vpd_ports, l2, active, send_fd, recv_fd, rx_running,
          enabled, callbacks, cbs, s_fd, s_rx_running, fds, sockFile, inbox,
          arrived, rxpc, rx_fd, rx_dg, pc, rfd, ncalls, last, out, lc_last,
          up_at_call, codec, uart, mtx, tx, ser, snd,
          thr, duo>>

----------------------------------------------------------------------------
\* Observations

\* Upward callbacks as the upper stack sees them.
LC(p, up) == [cb |-> "link_change", port |-> p, up |-> up]
RX(p) == [cb |-> "receive", port |-> p, up |-> FALSE]

\* Values a link_change port argument can take.
LcArgs == 0..(VIRTUAL_PORT_MAX_PEERS + 1)

\* lc_last after the callbacks evs have been delivered in order.
RECURSIVE ApplyLC(_, _)
ApplyLC(ls, evs) ==
  IF evs = <<>> THEN ls
  ELSE ApplyLC(IF Head(evs).cb = "link_change"
               THEN [ls EXCEPT ![Head(evs).port] =
                                   IF Head(evs).up THEN "up" ELSE "down"]
               ELSE ls,
               Tail(evs))

\* A call record; len and wire are the frame length passed to send and the
\* writes that call made on the transports.
CallRec(o, p, i, e, f, d) ==
  [op |-> o, port |-> p, inp |-> i, err |-> e, flag |-> f, done |-> d,
   len |-> 0, wire |-> <<>>]

\* One write on a transport: a sendto() of n bytes with first byte b on the
\* send socket of slot i (ok: the kernel accepted the datagram), or bytes put
\* on the serial line (slot UartSlot; ok: the whole record went out).
UartSlot == VIRTUAL_PORT_MAX_PEERS
WR(i, b, n, ok) == [to |-> i, port |-> b, len |-> n, ok |-> ok]

NoDg == [port |-> 0, len |-> 0]

----------------------------------------------------------------------------
\* Device state as one record, so that an operation is a function from the
\* state and its inputs to the new state, the callbacks it delivers and its
\* return value.

St ==
  [ send_fd |-> send_fd, recv_fd |-> recv_fd, rx_running |-> rx_running,
    enabled |-> enabled, s_fd |-> s_fd, s_rx_running |-> s_rx_running,
    fds |-> fds, sockFile |-> sockFile, rxpc |-> rxpc, inbox |-> inbox ]

Commit(st) ==
  /\ send_fd' = st.send_fd
  /\ recv_fd' = st.recv_fd
  /\ rx_running' = st.rx_running
  /\ enabled' = st.enabled
  /\ s_fd' = st.s_fd
  /\ s_rx_running' = st.s_rx_running
  /\ fds' = st.fds
  /\ sockFile' = st.sockFile
  /\ rxpc' = st.rxpc
  /\ inbox' = st.inbox

\* Result of an operation: new state, callbacks delivered, error code, and
\* the out-parameter (renegotiated) where there is one.
R(st, cb, err, flag) == [st |-> st, cb |-> cb, err |-> err, flag |-> flag]

\* if (lc) { lc((uint8_t)idx, up); } with the IPC device's own callback block
VpdLC(idx, up) == IF callbacks.link_change THEN <<LC(idx, up)>> ELSE <<>>

\* if (s_gw.cbs.link_change) { s_gw.cbs.link_change(port, up); }
GwLC(port, up) == IF cbs.link_change THEN <<LC(port, up)>> ELSE <<>>

----------------------------------------------------------------------------
\* IPC device operations

vpd_num_ports == VIRTUAL_PORT_MAX_PEERS

\* Send sockets opened by the loop in vpd_enable; sfdOk[i] is whether
\* socket() succeeds for slot i.
EnableSendFds(sfdOk) ==
  [i \in Slots |->
     IF active[i] /\ send_fd[i] < 0 /\ sfdOk[i] THEN SendFdBase + i
     ELSE send_fd[i]]

\* vpd_enable as its header comment describes it: it also fires
\* link_change(idx, true) for every configured peer before returning.
vpd_enable_notifying(rsockOk, bindOk, sfdOk, thrOk) ==
  LET opened == EnableSendFds(sfdOk)
      newfds == {opened[i] : i \in Slots} \ {-1}
      ups == SelectSeq([k \in 1..VIRTUAL_PORT_MAX_PEERS |-> LC(k - 1, TRUE)],
                       LAMBDA e : active[e.port] /\ callbacks.link_change)
  IN
  IF enabled THEN R(St, <<>>, "BmOK", FALSE)
  ELSE IF ~rsockOk THEN R(St, <<>>, "BmEIO", FALSE)
  ELSE IF ~bindOk THEN
    R([St EXCEPT !.sockFile = FALSE], <<>>, "BmEIO", FALSE)
  ELSE IF ~thrOk THEN
    R([St EXCEPT !.rx_running = FALSE, !.recv_fd = -1, !.sockFile = FALSE,
                 !.send_fd = opened, !.fds = (fds \cup newfds) \ {RecvFd}],
      <<>>, "BmEIO", FALSE)
  ELSE
    R([St EXCEPT !.recv_fd = RecvFd, !.rx_running = TRUE, !.send_fd = opened,
                 !.enabled = TRUE, !.fds = fds \cup newfds \cup {RecvFd},
                 !.sockFile = TRUE, !.rxpc = "check", !.inbox = <<>>],
      ups, "BmOK", FALSE)

\* vpd_enable that does not look at the result of pthread_create: the device
\* is marked enabled although no receive thread was started.
vpd_enable_unchecked_thread(rsockOk, bindOk, sfdOk, thrOk) ==
  LET opened == EnableSendFds(sfdOk)
      newfds == {opened[i] : i \in Slots} \ {-1}
  IN
  IF enabled THEN R(St, <<>>, "BmOK", FALSE)
  ELSE IF ~rsockOk THEN R(St, <<>>, "BmEIO", FALSE)
  ELSE IF ~bindOk THEN
    R([St EXCEPT !.sockFile = FALSE], <<>>, "BmEIO", FALSE)
  ELSE
    R([St EXCEPT !.recv_fd = RecvFd, !.rx_running = TRUE, !.send_fd = opened,
                 !.enabled = TRUE, !.fds = fds \cup newfds \cup {RecvFd},
                 !.sockFile = TRUE,
                 !.rxpc = IF thrOk THEN "check" ELSE rxpc,
                 !.inbox = <<>>],
      <<>>, "BmOK", FALSE)

vpd_enable(rsockOk, bindOk, sfdOk, thrOk) ==
  LET opened == EnableSendFds(sfdOk)
      newfds == {opened[i] : i \in Slots} \ {-1}
  IN
  IF enabled THEN R(St, <<>>, "BmOK", FALSE)
  ELSE IF ~rsockOk THEN R(St, <<>>, "BmEIO", FALSE)
  ELSE IF ~bindOk THEN
    \* unlink(own_sock_path) ran before the failed bind
    R([St EXCEPT !.sockFile = FALSE], <<>>, "BmEIO", FALSE)
  ELSE IF ~thrOk THEN
    R([St EXCEPT !.rx_running = FALSE, !.recv_fd = -1, !.sockFile = FALSE,
                 !.send_fd = opened, !.fds = (fds \cup newfds) \ {RecvFd}],
      <<>>, "BmEIO", FALSE)
  ELSE
    R([St EXCEPT !.recv_fd = RecvFd, !.rx_running = TRUE, !.send_fd = opened,
                 !.enabled = TRUE, !.fds = fds \cup newfds \cup {RecvFd},
                 !.sockFile = TRUE, !.rxpc = "check", !.inbox = <<>>],
      <<>>, "BmOK", FALSE)

\* The locked section at the head of vpd_disable.  cont says whether the
\* function goes on (device was enabled) or has returned.
vpd_disable_begin ==
  IF ~enabled THEN [cont |-> FALSE, st |-> St, rfd |-> rfd]
  ELSE [cont |-> TRUE,
        st |-> [St EXCEPT !.enabled = FALSE, !.rx_running = FALSE,
                          !.recv_fd = -1],
        rfd |-> recv_fd]

\* vpd_enable_port without the check that the slot is configured.
vpd_enable_port_unchecked(port_num, sockOk) ==
  IF port_num < 1 \/ port_num > VIRTUAL_PORT_MAX_PEERS
  THEN R(St, <<>>, "BmEINVAL", FALSE)
  ELSE
    LET idx == port_num - 1 IN
    IF send_fd[idx] < 0 /\ sockOk THEN
      R([St EXCEPT !.send_fd[idx] = SendFdBase + idx,
                   !.fds = fds \cup {SendFdBase + idx}],
        VpdLC(idx, TRUE), "BmOK", FALSE)
    ELSE R(St, VpdLC(idx, TRUE), "BmOK", FALSE)

vpd_enable_port(port_num, sockOk) ==
  IF port_num < 1 \/ port_num > VIRTUAL_PORT_MAX_PEERS
  THEN R(St, <<>>, "BmEINVAL", FALSE)
  ELSE
    LET idx == port_num - 1 IN
    IF ~active[idx] THEN R(St, <<>>, "BmEINVAL", FALSE)
    ELSE IF send_fd[idx] < 0 /\ sockOk THEN
      R([St EXCEPT !.send_fd[idx] = SendFdBase + idx,
                   !.fds = fds \cup {SendFdBase + idx}],
        VpdLC(idx, TRUE), "BmOK", FALSE)
    ELSE R(St, VpdLC(idx, TRUE), "BmOK", FALSE)

vpd_disable_port(port_num) ==
  IF port_num < 1 \/ port_num > VIRTUAL_PORT_MAX_PEERS
  THEN R(St, <<>>, "BmEINVAL", FALSE)
  ELSE
    LET idx == port_num - 1 IN
    IF ~active[idx] THEN R(St, <<>>, "BmEINVAL", FALSE)
    ELSE IF send_fd[idx] >= 0 THEN
      R([St EXCEPT !.send_fd[idx] = -1, !.fds = fds \ {send_fd[idx]}],
        VpdLC(idx, FALSE), "BmOK", FALSE)
    ELSE R(St, VpdLC(idx, FALSE), "BmOK", FALSE)

\* exists: access(p->sock_path, F_OK) == 0;  sockOk: socket() succeeds
vpd_retry_negotiation(port_num, exists, sockOk) ==
  IF port_num < 1 \/ port_num > VIRTUAL_PORT_MAX_PEERS
  THEN R(St, <<>>, "BmEINVAL", FALSE)
  ELSE
    LET idx == port_num - 1 IN
    IF ~active[idx] THEN R(St, <<>>, "BmOK", FALSE)
    ELSE IF ~exists THEN R(St, <<>>, "BmOK", FALSE)
    ELSE IF send_fd[idx] < 0 THEN
      IF sockOk
      THEN R([St EXCEPT !.send_fd[idx] = SendFdBase + idx,
                        !.fds = fds \cup {SendFdBase + idx}],
             VpdLC(idx, TRUE), "BmOK", TRUE)
      ELSE R(St, <<>>, "BmOK", FALSE)
    ELSE R(St, VpdLC(idx, TRUE), "BmOK", TRUE)

\* VIRTUAL_PORT_DGRAM_LEN(frame_len)
VIRTUAL_PORT_DGRAM_LEN(frame_len) == VIRTUAL_PORT_DGRAM_HDR_LEN + frame_len

\* A flood loop that tags each datagram with the slot index.
RECURSIVE FloodFrom_slot_index(_, _, _)
FloodFrom_slot_index(i, length, sendOk) ==
  IF i >= VIRTUAL_PORT_MAX_PEERS THEN <<>>
  ELSE (IF ~active[i] \/ send_fd[i] < 0 THEN <<>>
        ELSE <<WR(i, i, VIRTUAL_PORT_DGRAM_LEN(length), sendOk[i])>>)
       \o FloodFrom_slot_index(i + 1, length, sendOk)

\* A flood loop that skips only the slots without a peer.
RECURSIVE FloodFrom_active_only(_, _, _)
FloodFrom_active_only(i, length, sendOk) ==
  IF i >= VIRTUAL_PORT_MAX_PEERS THEN <<>>
  ELSE (IF ~active[i] THEN <<>>
        ELSE <<WR(i, i + 1, VIRTUAL_PORT_DGRAM_LEN(length), sendOk[i])>>)
       \o FloodFrom_active_only(i + 1, length, sendOk)

\* A flood loop that ends at the first sendto that fails.
RECURSIVE FloodFrom_stop_at_failure(_, _, _)
FloodFrom_stop_at_failure(i, length, sendOk) ==
  IF i >= VIRTUAL_PORT_MAX_PEERS THEN <<>>
  ELSE IF ~active[i] \/ send_fd[i] < 0
  THEN FloodFrom_stop_at_failure(i + 1, length, sendOk)
  ELSE <<WR(i, i + 1, VIRTUAL_PORT_DGRAM_LEN(length), sendOk[i])>>
       \o (IF sendOk[i]
           THEN FloodFrom_stop_at_failure(i + 1, length, sendOk)
           ELSE <<>>)

\* The flood loop of vpd_send from slot i on: one sendto per slot that is
\* active with an open send socket, tagged i + 1.
RECURSIVE FloodFrom(_, _, _)
FloodFrom(i, length, sendOk) ==
  IF i >= VIRTUAL_PORT_MAX_PEERS THEN <<>>
  ELSE (IF ~active[i] \/ send_fd[i] < 0 THEN <<>>
        ELSE <<WR(i, i + 1, VIRTUAL_PORT_DGRAM_LEN(length), sendOk[i])>>)
       \o FloodFrom(i + 1, length, sendOk)

\* Error code of a send whose writes were w.
SendErr(w) ==
  IF \E k \in 1..Len(w) : ~w[k].ok THEN "BmEIO" ELSE "BmOK"

\* vpd_send(self, data, length, port); data is whether the pointer is
\* non-NULL, sendOk[i] whether sendto() on slot i succeeds.
vpd_send(data, length, port, sendOk) ==
  IF ~data \/ length = 0 \/ length > VIRTUAL_PORT_MAX_FRAME_LEN
  THEN [err |-> "BmEINVAL", wire |-> <<>>]
  ELSE IF port > VIRTUAL_PORT_MAX_PEERS
  THEN [err |-> "BmEINVAL", wire |-> <<>>]
  ELSE IF port = 0
  THEN LET w == FloodFrom(0, length, sendOk)
       IN [err |-> SendErr(w), wire |-> w]
  ELSE LET idx == port - 1 IN
       IF ~active[idx] \/ send_fd[idx] < 0
       THEN [err |-> "BmEINVAL", wire |-> <<>>]
       ELSE LET w == <<WR(idx, port, VIRTUAL_PORT_DGRAM_LEN(length),
                          sendOk[idx])>>
            IN [err |-> SendErr(w), wire |-> w]

----------------------------------------------------------------------------
\* Serial transport and composite device operations

uart_l2_transport_deinit(st) ==
  IF st.s_fd < 0 THEN st
  ELSE [st EXCEPT !.s_rx_running = FALSE, !.s_fd = -1,
                  !.fds = st.fds \ {st.s_fd}]

uart_port == vpd_ports + 1
\* A port count that drops the serial port once the serial line is closed.
gw_num_ports_open == IF s_fd >= 0 THEN vpd_ports + 1 ELSE vpd_ports

\* gw_num_ports(self)
gw_num_ports == vpd_ports + 1

gw_enable(rsockOk, bindOk, sfdOk, thrOk) ==
  LET r == vpd_enable(rsockOk, bindOk, sfdOk, thrOk) IN
  IF r.err = "BmOK" THEN R(r.st, r.cb \o GwLC(uart_port, TRUE), r.err, FALSE)
  ELSE r

\* gw_disable up to and including the locked section of vpd_disable
gw_disable_begin ==
  LET d == vpd_disable_begin IN
  [cont |-> d.cont, st |-> uart_l2_transport_deinit(d.st), rfd |-> d.rfd,
   cb |-> GwLC(uart_port, FALSE)]

\* uart_l2_send(l2_frame, l2_len); wr is how the write loop ends: "ok", the
\* whole record written; "partial", an error after some bytes; "none", an
\* error on the first write.
uart_l2_send(data, length, wr) ==
  IF s_fd < 0 \/ ~data \/ length = 0 THEN [rc |-> -1, wire |-> <<>>]
  ELSE IF length > FRAME_CODEC_MAX_L2_SIZE THEN [rc |-> -1, wire |-> <<>>]
  ELSE IF wr = "ok"
  THEN [rc |-> 0, wire |-> <<WR(UartSlot, 0, length, TRUE)>>]
  ELSE IF wr = "partial"
  THEN [rc |-> -1, wire |-> <<WR(UartSlot, 0, length, FALSE)>>]
  ELSE [rc |-> -1, wire |-> <<>>]

gw_send(data, length, port, sendOk, wr) ==
  IF port = 0
  THEN LET v == vpd_send(data, length, 0, sendOk)
           u == uart_l2_send(data, length, wr)
       IN [err |-> IF v.err # "BmOK" /\ u.rc # 0 THEN v.err ELSE "BmOK",
           wire |-> v.wire \o u.wire]
  ELSE IF port >= 1 /\ port <= vpd_ports
  THEN vpd_send(data, length, port, sendOk)
  ELSE IF port = uart_port
  THEN LET u == uart_l2_send(data, length, wr)
       IN [err |-> IF u.rc = 0 THEN "BmOK" ELSE "BmEIO", wire |-> u.wire]
  ELSE [err |-> "BmEINVAL", wire |-> <<>>]

gw_enable_port(port_num, sockOk) ==
  IF port_num >= 1 /\ port_num <= vpd_ports
  THEN vpd_enable_port(port_num, sockOk)
  ELSE IF port_num = uart_port THEN R(St, <<>>, "BmOK", FALSE)
  ELSE R(St, <<>>, "BmEINVAL", FALSE)

gw_disable_port(port_num) ==
  IF port_num >= 1 /\ port_num <= vpd_ports
  THEN vpd_disable_port(port_num)
  ELSE IF port_num = uart_port THEN R(St, <<>>, "BmOK", FALSE)
  ELSE R(St, <<>>, "BmEINVAL", FALSE)

gw_retry_negotiation(port_index, exists, sockOk) ==
  IF port_index < vpd_ports
  THEN vpd_retry_negotiation(port_index, exists, sockOk)
  ELSE R(St, <<>>, "BmOK", FALSE)

----------------------------------------------------------------------------
\* Initial states: the device as built by virtual_port_device_get (and
\* gateway_device_get after uart_l2_transport_init in gateway mode) for a
\* launch configuration with num_peers peers.

InitVars(m) ==
  /\ mode = m
  /\ vpd_dev = "live"
  /\ vpd_ports = IF m = "gw" THEN vpd_num_ports ELSE 0
  /\ l2 = FALSE
  /\ \E num_peers \in 0..VIRTUAL_PORT_MAX_PEERS :
       active = [i \in Slots |-> i < num_peers]
  /\ send_fd = [i \in Slots |-> -1]
  /\ recv_fd = -1
  /\ rx_running = FALSE
  /\ enabled = FALSE
  /\ callbacks = [receive |-> FALSE, link_change |-> FALSE]
  /\ cbs = [receive |-> FALSE, link_change |-> FALSE]
  /\ s_fd = IF m = "gw" THEN UartFd ELSE -1
  /\ s_rx_running = (m = "gw")
  /\ fds = IF m = "gw" THEN {UartFd} ELSE {}
  /\ sockFile \in BOOLEAN
  /\ inbox = <<>>
  /\ arrived = 0
  /\ rxpc = "none"
  /\ rx_fd = -1
  /\ rx_dg = NoDg
  /\ pc = "idle"
  /\ rfd = -1
  /\ ncalls = 0
  /\ last = CallRec("", 0, FALSE, "", FALSE, TRUE)
  /\ out = <<>>
  /\ lc_last = [a \in LcArgs |-> "none"]
  /\ up_at_call = {}

\* The codec and the serial receive thread at rest: no call, no bytes.
CodecIdle ==
  [pc |-> "none", src |-> <<>>, n |-> 0, wire |-> <<>>, res |-> <<>>,
   bit |-> -1, dst_len |-> 0, oob |-> FALSE]
UartIdle == [stream |-> <<>>, pos |-> 0, accum |-> <<>>, delivered |-> <<>>,
             results |-> <<>>, seen |-> 0, bad_len |-> 0, bad_n |-> 0,
             good |-> <<>>]

\* The device mutex free and both threads outside every operation.
Threads == {"caller", "rx"}
MtxIdle == [holder |-> "free", todo |-> [t \in Threads |-> <<>>],
            nested |-> [t \in Threads |-> FALSE], rx_alive |-> FALSE]

\* The threads that call uart_l2_send at the same time, once each.
Senders == {"a", "b", "c"}

\* No call of uart_l2_send in progress, s_tx_mutex free, nothing written.
SenderIdle == [pc |-> "idle", wire |-> <<>>, remaining |-> 0, result |-> 0,
               entry |-> 0]
TxIdle == [line |-> <<>>, holder |-> "free", calls |-> <<>>,
           snd |-> [t \in Senders |-> SenderIdle]]

\* The serial transport as uart_l2_transport_init leaves it: s_rx_cb stored,
\* the receive thread at the head of its loop, nobody in deinit.
SerIdle == [s_rx_cb |-> TRUE, dpc |-> "idle", rxpc |-> "loop", rd_fd |-> -1,
            pending |-> 0, arrived |-> 0, ops |-> 0, cb_calls |-> 0,
            late_cb |-> FALSE, send_rc |-> 0, wrote |-> FALSE]

\* Receive threads are numbered in the order of their creation; 0 is no
\* thread.
RxIds == 1..MaxOps

\* Nobody inside enable or disable, no receive thread created yet.  dpc is
\* the position of the thread inside vpd_disable and d_rfd its local rfd;
\* undo is the receive thread of the enable that this disable undoes.
ThrIdle == [dpc |-> "idle", d_rfd |-> -1, rx_thread |-> 0,
            rx |-> [k \in RxIds |-> [pc |-> "none", fd |-> -1]],
            created |-> 0, enables |-> 0, disables |-> 0, undo |-> 0,
            joined |-> 0, overlap |-> FALSE]

\* No second thread inside vpd_send.
SndIdle == [pc |-> "idle", port |-> 0, i |-> 0, active |-> FALSE, sfd |-> -1,
            err |-> "BmOK", calls |-> 0, closed_write |-> FALSE]

\* The two processes of a two-node topology, neither enabled, no socket
\* file on disk.  file: own_sock_path exists; bound: a receive socket is
\* bound to it; send_fd: peers[0].send_fd is open; up: the link_change
\* arguments reported up; early: a link was reported up while the peer had
\* no bound receive socket; tries: calls of retry_negotiation so far, counted
\* up to MaxOps.
Nodes == {"A", "B"}
NodeIdle == [enabled |-> FALSE, file |-> FALSE, bound |-> FALSE,
             send_fd |-> FALSE, up |-> {}, early |-> FALSE, tries |-> 0]
DuoIdle == [n \in Nodes |-> NodeIdle]

ConcIdle ==
  /\ tx = TxIdle /\ ser = SerIdle /\ snd = SndIdle /\ thr = ThrIdle
  /\ duo = DuoIdle

InitDev(m) ==
  /\ InitVars(m)
  /\ codec = CodecIdle /\ uart = UartIdle /\ mtx = MtxIdle /\ ConcIdle

Init == InitDev("ipc")
InitGw == InitDev("gw")

----------------------------------------------------------------------------
\* Upper stack

\* bm_l2_init(net_dev) stores the upper stack's receive and link_change
\* pointers into the block net_dev.callbacks points at: the IPC device's own
\* block when the IPC device is handed up, s_gw.cbs when the composite is.
bm_l2_init ==
  /\ ~l2
  /\ l2' = TRUE
  /\ IF mode = "gw"
     THEN /\ cbs' = [receive |-> TRUE, link_change |-> TRUE]
          /\ UNCHANGED callbacks
     ELSE /\ callbacks' = [receive |-> TRUE, link_change |-> TRUE]
          /\ UNCHANGED cbs
  /\ UNCHANGED <<mode, vpd_dev, vpd_ports, active, send_fd, recv_fd,
                 rx_running, enabled, s_fd, s_rx_running, fds, sockFile,
                 rxvars, pc, rfd, ncalls, last, out, lc_last, up_at_call,
                 sidevars>>

\* Outcomes of the system calls inside enable: which of socket(), bind(),
\* pthread_create() fails, if any.
EnableFailures == {"none", "socket", "bind", "thread"}

\* Outcomes of socket() for the send sockets; only slots for which enable
\* calls socket() have a choice.
SendSockOutcomes ==
  {f \in [Slots -> BOOLEAN] :
     \A i \in Slots : (~active[i] \/ send_fd[i] >= 0 \/ enabled) => f[i]}

\* Outcomes of socket() in a per-port operation on port: a choice only when
\* the operation can reach the call.
PortSockOutcomes(port) ==
  IF /\ port >= 1 /\ port <= VIRTUAL_PORT_MAX_PEERS
     /\ active[port - 1] /\ send_fd[port - 1] < 0
  THEN BOOLEAN ELSE {TRUE}

\* Whether the peer's socket path exists when retry_negotiation looks for it:
\* a choice only when the operation can reach the access() call.
PeerPathOutcomes(port) ==
  IF /\ port >= 1 /\ port <= VIRTUAL_PORT_MAX_PEERS
     /\ active[port - 1]
  THEN BOOLEAN ELSE {FALSE}

\* The upper stack may start another device operation.
CanCall == l2 /\ pc = "idle" /\ ncalls < MaxOps

\* One complete call of an operation whose result is r.
ApiOp(name, port, flagIn, r) ==
  /\ Commit(r.st)
  /\ ncalls' = ncalls + 1
  /\ last' = CallRec(name, port, flagIn, r.err, r.flag, TRUE)
  /\ out' = r.cb
  /\ lc_last' = ApplyLC(lc_last, r.cb)
  /\ UNCHANGED <<mode, vpd_dev, vpd_ports, l2, active, callbacks, cbs,
                 arrived, rx_fd, rx_dg, pc, rfd, up_at_call, sidevars>>

\* A call of disable whose head is d: it either returns at once or goes on
\* through the steps below.
DisableOp(d, cb) ==
  /\ Commit(d.st)
  /\ rfd' = d.rfd
  /\ pc' = IF d.cont THEN "dis_close" ELSE "idle"
  /\ ncalls' = ncalls + 1
  /\ last' = CallRec("disable", 0, FALSE, IF d.cont THEN "" ELSE "BmOK",
                     FALSE, ~d.cont)
  /\ out' = cb
  /\ lc_last' = ApplyLC(lc_last, cb)
  /\ up_at_call' = {a \in LcArgs : lc_last[a] = "up"}
  /\ UNCHANGED <<mode, vpd_dev, vpd_ports, l2, active, callbacks, cbs,
                 arrived, rx_fd, rx_dg, sidevars>>

\* Frame lengths the upper stack passes to send: none, below the Ethernet
\* header, the shortest and the longest frame, one byte more, and one byte
\* more than the serial codec takes.
FrameLens ==
  {0, VIRTUAL_PORT_MIN_DGRAM_LEN - 2, VIRTUAL_PORT_MIN_DGRAM_LEN - 1,
   VIRTUAL_PORT_MAX_FRAME_LEN, VIRTUAL_PORT_MAX_FRAME_LEN + 1,
   FRAME_CODEC_MAX_L2_SIZE + 1}

\* Outcomes of sendto(): a choice only for the slots a send with this port
\* argument writes to.
SendtoOutcomes(port) ==
  {f \in [Slots -> BOOLEAN] :
     \A i \in Slots :
       ~(active[i] /\ send_fd[i] >= 0 /\ (port = 0 \/ port = i + 1)) => f[i]}

\* One complete call of send: the device state is left as it is.
SendOp(data, length, port, r) ==
  /\ ncalls' = ncalls + 1
  /\ last' = [CallRec("send", port, data, r.err, FALSE, TRUE)
                EXCEPT !.len = length, !.wire = r.wire]
  /\ out' = <<>>
  /\ UNCHANGED <<mode, vpd_dev, vpd_ports, l2, devvars, rxvars, pc, rfd,
                 lc_last, up_at_call, sidevars>>

VpdSend ==
  /\ mode = "ipc" /\ CanCall
  /\ \E length \in FrameLens, port \in PortArgs :
     \E sendOk \in SendtoOutcomes(port) :
     \E data \in (IF length = VIRTUAL_PORT_MAX_FRAME_LEN
                   THEN BOOLEAN ELSE {TRUE}) :
       SendOp(data, length, port, vpd_send(data, length, port, sendOk))

VpdEnable ==
  /\ mode = "ipc" /\ CanCall
  /\ \E fail \in EnableFailures, sfdOk \in SendSockOutcomes :
       ApiOp("enable", 0, FALSE,
             vpd_enable(fail # "socket", fail # "bind", sfdOk,
                        fail # "thread"))

VpdDisable ==
  /\ mode = "ipc" /\ CanCall
  /\ DisableOp(vpd_disable_begin, <<>>)

VpdEnablePort ==
  /\ mode = "ipc" /\ CanCall
  /\ \E port \in PortArgs : \E sockOk \in PortSockOutcomes(port) :
       ApiOp("enable_port", port, FALSE, vpd_enable_port(port, sockOk))

VpdDisablePort ==
  /\ mode = "ipc" /\ CanCall
  /\ \E port \in PortArgs :
       ApiOp("disable_port", port, FALSE, vpd_disable_port(port))

VpdRetryNegotiation ==
  /\ mode = "ipc" /\ CanCall
  /\ \E port \in PortArgs : \E exists \in PeerPathOutcomes(port) :
     \E sockOk \in PortSockOutcomes(port) :
       ApiOp("retry_negotiation", port, exists,
             vpd_retry_negotiation(port, exists, sockOk))

\* bm_sbc_runtime_init returns: vpd_dev, the local that gateway_device_get
\* was given the address of and that s_gw.vpd still points at, is gone.
RuntimeInitReturn ==
  /\ mode = "gw" /\ l2 /\ pc = "idle"
  /\ vpd_dev = "live"
  /\ vpd_dev' = "dangling"
  /\ out' = <<>>
  /\ UNCHANGED <<mode, vpd_ports, l2, devvars, rxvars, pc, rfd, ncalls, last,
                 lc_last, up_at_call, sidevars>>

\* A call through s_gw.vpd after the NetworkDevice it points at has gone
\* out of scope.  The stale memory may still hold the old contents, and then
\* the call goes on as usual (the other disjunct of the calling action); or
\* it does not, and the process dies in the call.  cb is what the operation
\* delivered before it reached the dereference, st the state it left.
DanglingCall(name, port, st, cb) ==
  /\ vpd_dev = "dangling"
  /\ Commit([st EXCEPT !.rxpc = "none", !.fds = {}])
  /\ pc' = "crashed"
  /\ ncalls' = ncalls + 1
  /\ last' = CallRec(name, port, FALSE, "", FALSE, FALSE)
  /\ out' = cb
  /\ lc_last' = ApplyLC(lc_last, cb)
  /\ UNCHANGED <<mode, vpd_dev, vpd_ports, l2, active, callbacks, cbs,
                 arrived, rx_fd, rx_dg, rfd, up_at_call, sidevars>>

\* Outcomes of the serial write loop: a choice only when uart_l2_send is
\* called and reaches the loop.
UartOutcomes(length, port) ==
  IF /\ port \in {0, uart_port} /\ s_fd >= 0
     /\ length > 0 /\ length <= FRAME_CODEC_MAX_L2_SIZE
  THEN {"ok", "partial", "none"} ELSE {"ok"}

GwSend ==
  /\ mode = "gw" /\ CanCall
  /\ \E length \in FrameLens, port \in PortArgs \cup {uart_port + 1} :
       \/ \E sendOk \in SendtoOutcomes(port) :
          \E wr \in UartOutcomes(length, port) :
          \E data \in (IF length = VIRTUAL_PORT_MAX_FRAME_LEN
                        THEN BOOLEAN ELSE {TRUE}) :
            SendOp(data, length, port,
                   gw_send(data, length, port, sendOk, wr))
       \/ /\ port = 0 \/ (port >= 1 /\ port <= vpd_ports)
          /\ DanglingCall("send", port, St, <<>>)

GwEnable ==
  /\ mode = "gw" /\ CanCall
  /\ \/ \E fail \in EnableFailures, sfdOk \in SendSockOutcomes :
          ApiOp("enable", 0, FALSE,
                gw_enable(fail # "socket", fail # "bind", sfdOk,
                          fail # "thread"))
     \/ DanglingCall("enable", 0, St, <<>>)

GwDisable ==
  /\ mode = "gw" /\ CanCall
  /\ \/ DisableOp(gw_disable_begin, gw_disable_begin.cb)
     \/ DanglingCall("disable", 0, uart_l2_transport_deinit(St),
                     GwLC(uart_port, FALSE))

GwEnablePort ==
  /\ mode = "gw" /\ CanCall
  /\ \E port \in PortArgs :
       \/ \E sockOk \in PortSockOutcomes(port) :
            ApiOp("enable_port", port, FALSE, gw_enable_port(port, sockOk))
       \/ /\ port >= 1 /\ port <= vpd_ports
          /\ DanglingCall("enable_port", port, St, <<>>)

GwDisablePort ==
  /\ mode = "gw" /\ CanCall
  /\ \E port \in PortArgs :
       \/ ApiOp("disable_port", port, FALSE, gw_disable_port(port))
       \/ /\ port >= 1 /\ port <= vpd_ports
          /\ DanglingCall("disable_port", port, St, <<>>)

GwRetryNegotiation ==
  /\ mode = "gw" /\ CanCall
  /\ \E port \in PortArgs :
       \/ \E exists \in PeerPathOutcomes(port) :
          \E sockOk \in PortSockOutcomes(port) :
            ApiOp("retry_negotiation", port, exists,
                  gw_retry_negotiation(port, exists, sockOk))
       \/ /\ port < vpd_ports
          /\ DanglingCall("retry_negotiation", port, St, <<>>)

----------------------------------------------------------------------------
\* vpd_disable after its locked section

\* The step without the unlink of the own socket path.
DisableClose_no_unlink ==
  /\ pc = "dis_close"
  /\ fds' = fds \ {rfd}
  /\ pc' = "dis_join"
  /\ UNCHANGED <<mode, vpd_dev, vpd_ports, l2, active, send_fd, recv_fd,
                 rx_running, enabled, callbacks, cbs, s_fd, s_rx_running,
                 sockFile, rxvars, rfd, ncalls, last, lc_last, up_at_call,
                 sidevars>>
  /\ out' = <<>>

\* if (rfd >= 0) { close(rfd); }  unlink(s->own_sock_path);
DisableClose ==
  /\ pc = "dis_close"
  /\ fds' = fds \ {rfd}
  /\ sockFile' = FALSE
  /\ pc' = "dis_join"
  /\ UNCHANGED <<mode, vpd_dev, vpd_ports, l2, active, send_fd, recv_fd,
                 rx_running, enabled, callbacks, cbs, s_fd, s_rx_running,
                 rxvars, rfd, ncalls, last, lc_last, up_at_call, sidevars>>
  /\ out' = <<>>

\* pthread_join(s->rx_thread, NULL) returns once the thread has terminated;
\* with the last user of the closed receive socket gone, the kernel drops
\* whatever was still queued on it.
JoinReady == rxpc = "exited"

\* The thread's locals are gone with it, and with the last user of the closed
\* receive socket gone the kernel drops whatever was still queued on it.
DisableJoin ==
  /\ pc = "dis_join"
  /\ JoinReady
  /\ rxpc' = "none"
  /\ inbox' = <<>>
  /\ pc' = "dis_fds"
  /\ out' = <<>>
  /\ UNCHANGED <<mode, vpd_dev, vpd_ports, l2, devvars, arrived, rx_fd, rx_dg,
                 rfd, ncalls, last, lc_last, up_at_call, sidevars>>

\* The loop that closes every open peer send socket.
DisableCloseSendFds ==
  /\ pc = "dis_fds"
  /\ send_fd' = [i \in Slots |-> -1]
  /\ fds' = fds \ {send_fd[i] : i \in Slots}
  /\ pc' = "dis_lc"
  /\ UNCHANGED <<mode, vpd_dev, vpd_ports, l2, active, recv_fd, rx_running,
                 enabled, callbacks, cbs, s_fd, s_rx_running, sockFile,
                 rxvars, rfd, ncalls, last, lc_last, up_at_call, sidevars>>
  /\ out' = <<>>

\* The notification loop testing send_fd >= 0 instead of active: after the
\* send sockets have been closed it notifies nobody.
DisableLCs_open_only ==
  IF callbacks.link_change
  THEN SelectSeq([k \in 1..VIRTUAL_PORT_MAX_PEERS |-> LC(k - 1, FALSE)],
                 LAMBDA e : send_fd[e.port] >= 0)
  ELSE <<>>

\* Callbacks of the notification loop: lc((uint8_t)i, false) for every
\* active slot, in slot order.  lc is the pointer snapshotted in the locked
\* section; the block is not written between bm_l2_init and this loop.
DisableLCs ==
  IF callbacks.link_change
  THEN SelectSeq([k \in 1..VIRTUAL_PORT_MAX_PEERS |-> LC(k - 1, FALSE)],
                 LAMBDA e : active[e.port])
  ELSE <<>>

DisableNotify ==
  /\ pc = "dis_lc"
  /\ out' = DisableLCs
  /\ lc_last' = ApplyLC(lc_last, DisableLCs)
  /\ last' = [last EXCEPT !.err = "BmOK", !.done = TRUE]
  /\ pc' = "idle"
  /\ UNCHANGED <<mode, vpd_dev, vpd_ports, l2, devvars, rxvars, rfd, ncalls,
                 up_at_call, sidevars>>

----------------------------------------------------------------------------
\* Receive thread (vpd_rx_thread)

\* A loop that never re-checks the flag or the descriptor.
RxLoopExit_never(running, fd) == FALSE

\* if (!running || fd < 0) { break; }
RxLoopExit(running, fd) == ~running \/ fd < 0

RxCheck ==
  /\ rxpc = "check"
  /\ rx_fd' = IF RxLoopExit(rx_running, recv_fd) THEN -1 ELSE recv_fd
  /\ rxpc' = IF RxLoopExit(rx_running, recv_fd) THEN "exited" ELSE "recv"
  /\ out' = <<>>
  /\ UNCHANGED <<mode, vpd_dev, vpd_ports, l2, devvars, inbox, arrived, rx_dg,
                 pc, rfd, ncalls, last, lc_last, up_at_call, sidevars>>

\* VIRTUAL_PORT_DGRAM_PORT(buf): the port byte of a datagram.
VIRTUAL_PORT_DGRAM_PORT(d) == d.port

\* A validation that checks the length only.
RxValid_length_only(d) == ~(d.len < VIRTUAL_PORT_MIN_DGRAM_LEN)

\* Length and port-byte validation of a received datagram.
RxValid(d) ==
  /\ ~(d.len < VIRTUAL_PORT_MIN_DGRAM_LEN)
  /\ ~(VIRTUAL_PORT_DGRAM_PORT(d) < 1
        \/ VIRTUAL_PORT_DGRAM_PORT(d) > VIRTUAL_PORT_MAX_PEERS)

\* The port the receive thread passes to callbacks->receive for datagram d.
RxIngress(d) == VIRTUAL_PORT_DGRAM_PORT(d)

\* recvfrom returned a datagram.
RxRecvDgram ==
  /\ rxpc = "recv"
  /\ inbox # <<>>
  /\ inbox' = Tail(inbox)
  /\ IF RxValid(Head(inbox))
     THEN rxpc' = "cb" /\ rx_dg' = Head(inbox)
     ELSE rxpc' = "dropped" /\ rx_dg' = NoDg
  /\ out' = <<>>
  /\ rx_fd' = -1
  /\ UNCHANGED <<mode, vpd_dev, vpd_ports, l2, devvars, arrived, pc, rfd,
                 ncalls, last, lc_last, up_at_call, sidevars>>

\* recvfrom returned EAGAIN/EWOULDBLOCK: the one-second SO_RCVTIMEO fired.
RxRecvTimeout ==
  /\ rxpc = "recv"
  /\ rxpc' = "check"
  /\ out' = <<>>
  /\ rx_fd' = -1
  /\ UNCHANGED <<mode, vpd_dev, vpd_ports, l2, devvars, inbox, arrived, rx_dg,
                 pc, rfd, ncalls, last, lc_last, up_at_call, sidevars>>

\* recvfrom failed with any other errno (EBADF after close, EINTR, ...).
RxRecvError ==
  /\ rxpc = "recv"
  /\ rxpc' = "exited"
  /\ out' = <<>>
  /\ rx_fd' = -1
  /\ UNCHANGED <<mode, vpd_dev, vpd_ports, l2, devvars, inbox, arrived, rx_dg,
                 pc, rfd, ncalls, last, lc_last, up_at_call, sidevars>>

\* Snapshot callbacks.receive under the lock, invoke it outside.
RxDeliver ==
  /\ rxpc = "cb"
  /\ out' = IF callbacks.receive THEN <<RX(RxIngress(rx_dg))>> ELSE <<>>
  /\ rxpc' = "check"
  /\ rx_dg' = NoDg
  /\ UNCHANGED <<mode, vpd_dev, vpd_ports, l2, devvars, inbox, arrived, rx_fd,
                 pc, rfd, ncalls, last, lc_last, up_at_call, sidevars>>

\* The datagram failed validation: continue with the next iteration.
RxDrop ==
  /\ rxpc = "dropped"
  /\ rxpc' = "check"
  /\ out' = <<>>
  /\ UNCHANGED <<mode, vpd_dev, vpd_ports, l2, devvars, inbox, arrived, rx_fd,
                 rx_dg, pc, rfd, ncalls, last, lc_last, up_at_call, sidevars>>

\* Some process writes a datagram to the bound receive endpoint.
DgramArrive ==
  /\ arrived < MaxDgrams
  /\ RecvFd \in fds
  /\ sockFile
  /\ \E d \in Dgrams : inbox' = Append(inbox, d)
  /\ arrived' = arrived + 1
  /\ out' = <<>>
  /\ UNCHANGED <<mode, vpd_dev, vpd_ports, l2, devvars, rxpc, rx_fd, rx_dg,
                 pc, rfd, ncalls, last, lc_last, up_at_call, sidevars>>

\* The write a peer process, running this program, makes towards this node
\* when this node fills slot a of the peer's table: the unicast branch of
\* vpd_send on port a + 1, or its flood loop at i = a.
PeerWrite(a, length) == WR(a, a + 1, VIRTUAL_PORT_DGRAM_LEN(length), TRUE)

\* A peer that this node lists in slot b, and that lists this node in its
\* own slot a, sends a frame to this node.  src records the sender's slot
\* here; it is not part of the bytes.
PeerSend ==
  /\ arrived < MaxDgrams
  /\ RecvFd \in fds
  /\ sockFile
  /\ \E a \in Slots, b \in Slots :
       /\ active[b]
       /\ LET w == PeerWrite(a, VIRTUAL_PORT_MAX_FRAME_LEN)
          IN inbox' = Append(inbox, [port |-> w.port, len |-> w.len,
                                     src |-> b])
  /\ arrived' = arrived + 1
  /\ out' = <<>>
  /\ UNCHANGED <<mode, vpd_dev, vpd_ports, l2, devvars, rxpc, rx_fd, rx_dg,
                 pc, rfd, ncalls, last, lc_last, up_at_call, sidevars>>

----------------------------------------------------------------------------
RxThread ==
  RxCheck \/ RxRecvDgram \/ RxRecvTimeout \/ RxRecvError \/ RxDrop \/ RxDeliver

DisableStep ==
  DisableClose \/ DisableJoin \/ DisableCloseSendFds \/ DisableNotify

Next ==
  \/ bm_l2_init
  \/ VpdEnable
  \/ VpdDisable
  \/ VpdEnablePort
  \/ VpdDisablePort
  \/ VpdRetryNegotiation
  \/ DisableClose
  \/ DisableJoin
  \/ DisableCloseSendFds
  \/ DisableNotify
  \/ RxCheck
  \/ RxRecvDgram
  \/ RxRecvTimeout
  \/ RxRecvError
  \/ RxDrop
  \/ RxDeliver
  \/ DgramArrive

NextGw ==
  \/ bm_l2_init
  \/ RuntimeInitReturn
  \/ GwEnable
  \/ GwDisable
  \/ GwEnablePort
  \/ GwDisablePort
  \/ GwRetryNegotiation
  \/ DisableClose
  \/ DisableJoin
  \/ DisableCloseSendFds
  \/ DisableNotify
  \/ RxCheck
  \/ RxRecvDgram
  \/ RxRecvTimeout
  \/ RxRecvError
  \/ RxDrop
  \/ RxDeliver
  \/ DgramArrive

\* The IPC device with the data path: every operation of its trait.
NextTx ==
  \/ bm_l2_init
  \/ VpdSend
  \/ VpdEnable
  \/ VpdDisable
  \/ VpdEnablePort
  \/ VpdDisablePort
  \/ VpdRetryNegotiation
  \/ DisableClose
  \/ DisableJoin
  \/ DisableCloseSendFds
  \/ DisableNotify
  \/ RxCheck
  \/ RxRecvTimeout
  \/ RxRecvError

Spec == Init /\ [][Next]_vars

SpecTx == Init /\ [][NextTx]_vars

\* The composite device with the data path.
NextGwTx ==
  \/ bm_l2_init
  \/ RuntimeInitReturn
  \/ GwSend
  \/ GwEnable
  \/ GwDisable
  \/ GwEnablePort
  \/ GwDisablePort
  \/ GwRetryNegotiation
  \/ DisableClose
  \/ DisableJoin
  \/ DisableCloseSendFds
  \/ DisableNotify
  \/ RxCheck
  \/ RxRecvTimeout
  \/ RxRecvError

SpecGwTx == InitGw /\ [][NextGwTx]_vars

SpecGw == InitGw /\ [][NextGw]_vars

\* The IPC device in a static topology: the datagrams that arrive are the
\* ones its peers send.
NextNet ==
  \/ bm_l2_init
  \/ VpdEnable
  \/ VpdDisable
  \/ DisableClose
  \/ DisableJoin
  \/ DisableCloseSendFds
  \/ DisableNotify
  \/ RxCheck
  \/ RxRecvDgram
  \/ RxRecvTimeout
  \/ RxRecvError
  \/ RxDeliver
  \/ PeerSend

SpecNet == Init /\ [][NextNet]_vars

\* The scheduler runs the receive thread and the caller inside disable.
LiveSpec == Spec /\ WF_vars(RxThread) /\ WF_vars(DisableStep)

----------------------------------------------------------------------------
\* Properties

RxAlive == rxpc \in {"check", "recv", "dropped", "cb"}

\* The callbacks of evs that are link_change callbacks.
LinkChanges(evs) == SelectSeq(evs, LAMBDA e : e.cb = "link_change")

Count(evs, e) == Cardinality({k \in DOMAIN evs : evs[k] = e})

\* The step starts a call of operation o.
CallOf(o) == ncalls' = ncalls + 1 /\ last'.op = o

SendFds == {SendFdBase + i : i \in Slots}

C2_LinkUpOnlyFromPortOps ==
  \A k \in DOMAIN out :
    (out[k].cb = "link_change" /\ out[k].up) =>
      last.op \in {"retry_negotiation", "enable_port"}

\* C3: for every port the link_change callbacks strictly alternate and start
\* with 'up': 'up' is delivered only for a port not currently reported up,
\* 'down' only for a port currently reported up.
C3_LinkChangeAlternates ==
  [][ \A k \in DOMAIN out' :
        out'[k].cb = "link_change" =>
          IF out'[k].up THEN lc_last[out'[k].port] # "up"
          ELSE lc_last[out'[k].port] = "up" ]_vars

\* The step is the first retry_negotiation after a successful first enable,
\* for a configured slot whose peer endpoint exists.
FirstTick ==
  /\ ncalls = 1 /\ last.op = "enable" /\ last.err = "BmOK"
  /\ CallOf("retry_negotiation")
  /\ last'.inp
  /\ last'.port >= 1 /\ last'.port <= VIRTUAL_PORT_MAX_PEERS
  /\ active[last'.port - 1]

\* C4 (as stated): after a successful enable and one retry_negotiation for a
\* configured slot i with a live peer, exactly one link_change(i, true) has
\* been delivered in total (none by enable, one by the tick), none for any
\* other slot.
C4_OneLinkUpAfterFirstTick ==
  [][ FirstTick =>
        /\ \A a \in LcArgs : lc_last[a] = "none"
        /\ out' = <<LC(last'.port - 1, TRUE)>> ]_vars

\* C4 (amended): after a successful enable and one retry_negotiation for a
\* configured slot i with a live peer, enable has delivered no link_change,
\* and the tick has delivered exactly one link_change(i, true) if an
\* outbound handle for slot i is open when it returns (socket() succeeded in
\* enable or in the tick) and no callback at all otherwise; no other slot is
\* reported.
C4_OneLinkUpIfHandleOpen ==
  [][ FirstTick =>
        /\ \A a \in LcArgs : lc_last[a] = "none"
        /\ out' = IF send_fd'[last'.port - 1] >= 0
                  THEN <<LC(last'.port - 1, TRUE)>> ELSE <<>>
        /\ last'.flag = (send_fd'[last'.port - 1] >= 0) ]_vars

C4_Witness ==
  /\ ncalls = 2 /\ enabled
  /\ last.op = "retry_negotiation" /\ last.inp /\ last.flag
  /\ out = <<LC(last.port - 1, TRUE)>>
  /\ \A a \in LcArgs : lc_last[a] = (IF a = last.port - 1 THEN "up" ELSE "none")

\* C5: retry_negotiation sets renegotiated=true if and only if the call
\* moved the port from link-down to link-up; when the port is already
\* link-up, the slot is unconfigured or the peer endpoint does not exist,
\* renegotiated is false and no link_change is delivered.
C5_RenegotiatedIffLinkWentUp ==
  [][ CallOf("retry_negotiation") =>
        LET p == last'.port
            valid == p >= 1 /\ p <= VIRTUAL_PORT_MAX_PEERS
        IN
        /\ last'.flag <=>
             (valid /\ lc_last[p - 1] # "up" /\ lc_last'[p - 1] = "up")
        /\ (\/ ~valid
            \/ lc_last[p - 1] = "up"
            \/ ~active[p - 1]
            \/ ~last'.inp) => (~last'.flag /\ out' = <<>>) ]_vars

\* C6: disable on an enabled IPC device delivers exactly one
\* link_change(i, false) for every slot i that was link-up when it was
\* called, and delivers link_change only after the receive thread has been
\* joined and every outbound handle closed.
C6_DisableNotifiesEachUpSlotOnce ==
  [][ /\ pc' # "idle" => LinkChanges(out') = <<>>
      /\ (pc = "dis_lc" /\ pc' = "idle") =>
           /\ rxpc = "none"
           /\ \A i \in Slots : send_fd[i] = -1
           /\ fds \cap SendFds = {}
           /\ \A i \in Slots :
                i \in up_at_call => Count(out', LC(i, FALSE)) = 1 ]_vars

C6_Witness ==
  /\ last.op = "disable" /\ last.done /\ pc = "idle"
  /\ up_at_call # {}
  /\ \A i \in up_at_call : Count(out, LC(i, FALSE)) = 1

\* C7 (as stated): the receive thread is alive if and only if the device is
\* enabled.
C7_ThreadIffEnabled == RxAlive <=> enabled

\* C7 (amended): the receive thread is alive only while the device is
\* enabled or a disable call has not yet joined it, and an enabled device
\* has had its thread started; the thread may have exited on a fatal receive
\* error while the device is still enabled.
C7_ThreadOnlyWhileEnabledOrJoining ==
  /\ RxAlive => (enabled \/ pc \in {"dis_close", "dis_join"})
  /\ enabled => rxpc # "none"

C7_Witness == pc = "dis_join" /\ RxAlive /\ ~enabled

\* C8: when disable returns on an enabled IPC device the receive handle is
\* closed and marked not bound, every outbound handle is closed and marked
\* unopened, the own socket file is removed and the receive thread has
\* terminated; and while the device is not enabled and no call is running,
\* no receive callback is delivered.
C8_DisableReleasesEverything ==
  [][ /\ (pc = "dis_lc" /\ pc' = "idle") =>
           /\ recv_fd' = -1 /\ RecvFd \notin fds'
           /\ \A i \in Slots : send_fd'[i] = -1
           /\ fds' \cap SendFds = {}
           /\ ~sockFile'
           /\ rxpc' = "none"
           /\ ~enabled'
      /\ (~enabled /\ pc = "idle") =>
           \A p \in PortArgs : Count(out', RX(p)) = 0 ]_vars

C8_Witness ==
  /\ last.op = "disable" /\ last.done /\ pc = "idle" /\ rfd = RecvFd
  /\ recv_fd = -1 /\ fds = {} /\ ~sockFile /\ rxpc = "none"

\* C9: under fair scheduling of the receive thread and of the caller, a
\* disable call that has started always returns, whatever the receive thread
\* was doing when it started.
C9_DisableReturns == (last.op = "disable" /\ ~last.done) ~> last.done

C9_Witness == pc = "dis_join" /\ rxpc = "cb"

\* C10: on every device variant, enable on an enabled device and disable on
\* a device that is not enabled return success, leave the device state
\* unchanged and deliver no callback.
C10_EnableDisableIdempotent ==
  [][ (\/ (CallOf("enable") /\ enabled)
       \/ (CallOf("disable") /\ ~enabled)) =>
        /\ last'.done /\ last'.err = "BmOK"
        /\ out' = <<>>
        /\ UNCHANGED <<devvars, rxvars>> ]_vars


----------------------------------------------------------------------------
\* Data path

\* Port count the device handed to the upper stack reports.
num_ports == IF mode = "gw" THEN gw_num_ports ELSE vpd_num_ports

\* The step is a complete call of send.
SendCall == CallOf("send") /\ last'.done

\* Writes of the latest call that went to slot i.
WritesTo(w, i) == {k \in 1..Len(w) : w[k].to = i}

\* C11: on every device variant, send returns invalid-argument and writes
\* nothing when the port is greater than the device's port count, when the
\* frame length is zero, or when the frame length is greater than 1514.
C11_SendRejectsInvalid ==
  [][SendCall
       /\ (\/ last'.port > num_ports
           \/ last'.len = 0
           \/ last'.len > VIRTUAL_PORT_MAX_FRAME_LEN)
     => last'.err = "BmEINVAL" /\ last'.wire = <<>>]_vars

\* C12: a flood send returns success whenever at least one port accepted the
\* frame, even if the write to other ports failed; it returns an error only
\* when no port accepted it.
C12_FloodSucceedsIfAnyAccepted ==
  [][SendCall /\ last'.port = 0
       /\ (\E k \in 1..Len(last'.wire) : last'.wire[k].ok)
     => last'.err = "BmOK"]_vars

C14_IngressIsReceiversPortForSender ==
  [][rxpc = "cb" /\ rxpc' = "check" /\ callbacks.receive
     => out' = <<RX(rx_dg.src + 1)>>]_vars

\* C15: every datagram the IPC device writes, unicast or flood, carries a
\* port byte in 1..VIRTUAL_PORT_MAX_PEERS; the flood indicator 0 is never
\* written on the wire, in any state and for any send argument.
C15_PortByteNeverZero ==
  \A k \in 1..Len(last.wire) :
    /\ VIRTUAL_PORT_DGRAM_PORT(last.wire[k]) >= 1
    /\ VIRTUAL_PORT_DGRAM_PORT(last.wire[k]) <= VIRTUAL_PORT_MAX_PEERS

\* A flood wrote to every slot of the table.
C15_Witness ==
  /\ last.op = "send" /\ last.port = 0
  /\ Len(last.wire) = VIRTUAL_PORT_MAX_PEERS

\* C16: every datagram the IPC device writes is one port byte followed by
\* 14..1514 frame bytes, so every frame for which send reports success is
\* one that the peer's receive loop accepts rather than drops as too short.
C16_WrittenDatagramsAccepted ==
  \A k \in 1..Len(last.wire) :
    /\ last.wire[k].len >= VIRTUAL_PORT_MIN_DGRAM_LEN
    /\ last.wire[k].len <= VIRTUAL_PORT_DGRAM_LEN(VIRTUAL_PORT_MAX_FRAME_LEN)
    /\ last.err = "BmOK" => RxValid(last.wire[k])

\* The datagram is one the receiver must not deliver: too short for the port
\* byte and an Ethernet header, or a port byte that names no port.
Malformed(d) ==
  \/ d.len < VIRTUAL_PORT_MIN_DGRAM_LEN
  \/ d.port < 1
  \/ d.port > VIRTUAL_PORT_MAX_PEERS

C18_NumPortsConstant ==
  /\ vpd_num_ports = VIRTUAL_PORT_MAX_PEERS
  /\ gw_num_ports = VIRTUAL_PORT_MAX_PEERS + 1
  /\ num_ports = gw_num_ports

\* The composite device has been enabled, used and disabled again.
C18_Witness ==
  /\ last.op = "disable" /\ last.done
  /\ ncalls = MaxOps
  /\ pc = "idle" /\ ~enabled
  /\ \E a \in LcArgs : lc_last[a] = "down"

\* C19: in composite mode the IPC underlay and the serial path invoke the
\* same upper-stack function pointers: once the upper stack has written
\* receive and link_change into the composite's callback block, a valid
\* datagram arriving on IPC port p results in receive(p, frame), and the IPC
\* underlay's link changes are delivered to that link_change.
C19_UnderlaySharesCallbackBlock ==
  [][/\ (rxpc = "cb" /\ rxpc' = "check" /\ cbs.receive)
          => out' = <<RX(VIRTUAL_PORT_DGRAM_PORT(rx_dg))>>
     /\ (/\ CallOf("enable_port") /\ last'.done /\ last'.err = "BmOK"
         /\ last'.port >= 1 /\ last'.port <= vpd_ports
         /\ cbs.link_change)
          => LinkChanges(out') # <<>>]_vars

\* What the composite's send does with port p: the IPC underlay's result for
\* 1..N, the serial transport alone for N+1, both underlays for 0 with
\* success if and only if one of them succeeded, invalid-argument and no
\* write for any other port.  d, n are the frame, e, w the result and writes.
RoutedByPort(d, n, p, e, w) ==
  IF p = 0
  THEN \E sendOk \in [Slots -> BOOLEAN] :
       \E wr \in {"ok", "partial", "none"} :
         LET v == vpd_send(d, n, 0, sendOk)
             u == uart_l2_send(d, n, wr)
         IN /\ w = v.wire \o u.wire
            /\ e = "BmOK" <=> (v.err = "BmOK" \/ u.rc = 0)
  ELSE IF p >= 1 /\ p <= VIRTUAL_PORT_MAX_PEERS
  THEN \E sendOk \in [Slots -> BOOLEAN] :
         [err |-> e, wire |-> w] = vpd_send(d, n, p, sendOk)
  ELSE IF p = VIRTUAL_PORT_MAX_PEERS + 1
  THEN \E wr \in {"ok", "partial", "none"} :
         LET u == uart_l2_send(d, n, wr)
         IN /\ w = u.wire
            /\ e = "BmOK" <=> u.rc = 0
  ELSE e = "BmEINVAL" /\ w = <<>>

\* C20: composite send routes by port: ports 1..N are delegated unchanged to
\* the IPC underlay and return its result, port N+1 is written to the serial
\* transport only, port 0 is sent to both underlays and succeeds if and only
\* if at least one underlay succeeded, and any other port returns
\* invalid-argument without writing anything.
C20_CompositeSendRoutes ==
  [][CallOf("send")
     => /\ last'.done
        /\ RoutedByPort(last'.inp, last'.len, last'.port, last'.err,
                        last'.wire)]_vars

\* The routing of the sends that return.
CompletedSendRoutes ==
  [][SendCall
     => RoutedByPort(last'.inp, last'.len, last'.port, last'.err,
                     last'.wire)]_vars

----------------------------------------------------------------------------
\* Composite per-port operations

PortOps == {"enable_port", "disable_port", "retry_negotiation"}

\* What the IPC underlay does with per-port operation o on port p.
UnderlayPortOp(o, p, exists, sockOk) ==
  IF o = "enable_port" THEN vpd_enable_port(p, sockOk)
  ELSE IF o = "disable_port" THEN vpd_disable_port(p)
  ELSE vpd_retry_negotiation(p, exists, sockOk)

\* C21: on the composite, retry_negotiation, enable_port and disable_port for
\* every IPC port p in 1..N are forwarded to the IPC underlay for that same
\* port and return its result; for the serial port N+1 they change nothing,
\* deliver no callback, and retry_negotiation reports renegotiated = false.
\* Stated for the calls that return.
C21_PerPortOpsForwarded ==
  [][\A o \in PortOps :
       (CallOf(o) /\ last'.done)
       => LET p == last'.port IN
          /\ (p >= 1 /\ p <= VIRTUAL_PORT_MAX_PEERS)
               => \E sockOk \in BOOLEAN :
                    LET r == UnderlayPortOp(o, p, last'.inp, sockOk)
                    IN /\ last'.err = r.err
                       /\ last'.flag = r.flag
                       /\ out' = r.cb
                       /\ send_fd' = r.st.send_fd
                       /\ fds' = r.st.fds
          /\ (p = VIRTUAL_PORT_MAX_PEERS + 1)
               => /\ last'.err = "BmOK"
                  /\ ~last'.flag
                  /\ out' = <<>>
                  /\ UNCHANGED devvars]_vars

----------------------------------------------------------------------------
\* Serial frame codec: CRC-32C, COBS, frame_encode / frame_decode

\* Bitwise exclusive or of two naturals.
RECURSIVE Xor(_, _)
Xor(a, b) ==
  IF a = 0 THEN b
  ELSE IF b = 0 THEN a
  ELSE (((a % 2) + (b % 2)) % 2) + 2 * Xor(a \div 2, b \div 2)

\* A uint32_t as its two 16-bit halves.
W32(hi, lo) == [hi |-> hi, lo |-> lo]

Xor32(a, b) == W32(Xor(a.hi, b.hi), Xor(a.lo, b.lo))

\* crc >> 4
Shr4(a) == W32(a.hi \div 16, (a.lo \div 16) + (a.hi % 16) * 4096)

\* The nibble lookup table of crc32c.c.
table ==
  <<
     W32(\h0000, \h0000), W32(\h105E, \hC76F),
     W32(\h20BD, \h8EDE), W32(\h30E3, \h49B1),
     W32(\h417B, \h1DBC), W32(\h5125, \hDAD3),
     W32(\h61C6, \h9362), W32(\h7198, \h540D),
     W32(\h82F6, \h3B78), W32(\h92A8, \hFC17),
     W32(\hA24B, \hB5A6), W32(\hB215, \h72C9),
     W32(\hC38D, \h26C4), W32(\hD3D3, \hE1AB),
     W32(\hE330, \hA81A), W32(\hF36E, \h6F75) >>

\* One iteration of the loop of crc32c_update: both nibbles of byte d.
crc32c_byte(crc, d) ==
  LET c1 == Xor32(Shr4(crc), table[Xor(crc.lo % 16, d % 16) + 1])
  IN Xor32(Shr4(c1), table[Xor(c1.lo % 16, d \div 16) + 1])

\* The loop of crc32c_update over data[lo..hi], in two halves.
RECURSIVE crc32c_range(_, _, _, _)
crc32c_range(crc, data, lo, hi) ==
  IF lo > hi THEN crc
  ELSE IF lo = hi THEN crc32c_byte(crc, data[lo])
  ELSE LET mid == (lo + hi) \div 2
           left == crc32c_range(crc, data, lo, mid)
       IN IF left.lo >= 0 THEN crc32c_range(left, data, mid + 1, hi)
          ELSE left

crc32c_update(crc, data) == crc32c_range(crc, data, 1, Len(data))

crc32c_finalize(crc) == Xor32(crc, W32(\hFFFF, \hFFFF))

crc32c(data) == crc32c_finalize(crc32c_update(W32(\hFFFF, \hFFFF), data))

\* COBS_ENCODE_MAX(src_len)
COBS_ENCODE_MAX(src_len) == src_len + (src_len \div 254) + 1

\* dst[k] = v for a buffer held as the sequence of its bytes written so far;
\* k is a 0-based index, at most one past the bytes written.
Poke(dst, k, v) ==
  IF k < Len(dst) THEN [dst EXCEPT ![k + 1] = v] ELSE Append(dst, v)

\* One iteration of the for loop of cobs_encode, at source index i (0-based).
\* st.n is dst_idx; a reserved code slot holds 0 until its code is written.
cobs_encode_step(st, dst_len, src, i) ==
  IF st.err THEN st
  ELSE IF src[i + 1] = 0 THEN
    LET d1 == Poke(st.dst, st.code_idx, st.code) IN
    IF st.n >= dst_len
    THEN [st EXCEPT !.dst = d1, !.code_idx = st.n, !.code = 1, !.err = TRUE]
    ELSE [st EXCEPT !.dst = Poke(d1, st.n, 0), !.code_idx = st.n,
                    !.code = 1, !.n = st.n + 1]
  ELSE IF st.n >= dst_len THEN [st EXCEPT !.err = TRUE]
  ELSE
    LET d1 == Poke(st.dst, st.n, src[i + 1])
        n1 == st.n + 1
        c1 == st.code + 1
    IN IF c1 # \hFF THEN [st EXCEPT !.dst = d1, !.n = n1, !.code = c1]
       ELSE LET d2 == Poke(d1, st.code_idx, c1) IN
            IF i + 1 < Len(src)
            THEN IF n1 >= dst_len
                 THEN [st EXCEPT !.dst = d2, !.n = n1, !.code_idx = n1,
                                 !.code = 1, !.err = TRUE]
                 ELSE [st EXCEPT !.dst = Poke(d2, n1, 0), !.n = n1 + 1,
                                 !.code_idx = n1, !.code = 1]
            ELSE [st EXCEPT !.dst = d2, !.n = n1, !.code_idx = n1,
                            !.code = 1]

\* The for loop of cobs_encode over source indices lo..hi, in two halves.
RECURSIVE cobs_encode_range(_, _, _, _, _)
cobs_encode_range(st, dst_len, src, lo, hi) ==
  IF lo > hi THEN st
  ELSE IF lo = hi THEN cobs_encode_step(st, dst_len, src, lo)
  ELSE LET mid == (lo + hi) \div 2
           left == cobs_encode_range(st, dst_len, src, lo, mid)
       IN IF left.err THEN left
          ELSE cobs_encode_range(left, dst_len, src, mid + 1, hi)

\* cobs_encode without the write of the last block's code byte.
cobs_encode_no_final_code(dst_len, src) ==
  IF 0 >= dst_len THEN [n |-> 0, dst |-> <<>>, oob |-> FALSE]
  ELSE
    LET st == cobs_encode_range(
                [dst |-> <<0>>, n |-> 1, code_idx |-> 0, code |-> 1,
                 err |-> FALSE],
                dst_len, src, 0, Len(src) - 1)
    IN IF st.err THEN [n |-> 0, dst |-> st.dst, oob |-> FALSE]
       ELSE [n |-> st.n, dst |-> st.dst, oob |-> FALSE]

\* cobs_encode(dst, dst_len, src, src_len): n is the value returned, dst the
\* buffer afterwards.  The final code byte goes to dst[code_idx], which lies
\* one past the bytes counted when the input ended on a full run; oob tells
\* that this write fell outside the buffer.
cobs_encode(dst_len, src) ==
  IF 0 >= dst_len THEN [n |-> 0, dst |-> <<>>, oob |-> FALSE]
  ELSE
    LET st == cobs_encode_range(
                [dst |-> <<0>>, n |-> 1, code_idx |-> 0, code |-> 1,
                 err |-> FALSE],
                dst_len, src, 0, Len(src) - 1)
    IN IF st.err THEN [n |-> 0, dst |-> st.dst, oob |-> FALSE]
       ELSE [n |-> st.n, dst |-> Poke(st.dst, st.code_idx, st.code),
             oob |-> st.code_idx >= dst_len]

\* The tail of one pass with the implicit zero after full-length blocks too.
cobs_decode_tail_always_zero(st, dst_len, src, i) ==
  IF i + 1 < Len(src)
  THEN IF Len(st.dst) >= dst_len THEN [st EXCEPT !.err = TRUE]
       ELSE [st EXCEPT !.dst = Append(st.dst, 0), !.next = i + 1]
  ELSE [st EXCEPT !.next = i + 1]

\* The tail of one pass of the while loop of cobs_decode: the implicit zero
\* after a block that is not the last and not of full length.
cobs_decode_tail(st, dst_len, src, i) ==
  IF st.code < \hFF /\ i + 1 < Len(src)
  THEN IF Len(st.dst) >= dst_len THEN [st EXCEPT !.err = TRUE]
       ELSE [st EXCEPT !.dst = Append(st.dst, 0), !.next = i + 1]
  ELSE [st EXCEPT !.next = i + 1]

\* cobs_decode at source index i (0-based): the code byte of a block when i
\* is st.next, else one data byte of the block that ends at st.last.
cobs_decode_step(st, dst_len, src, i) ==
  IF st.err THEN st
  ELSE IF i = st.next THEN
    LET code == src[i + 1]
        run == code - 1
    IN IF code = 0 THEN [st EXCEPT !.err = TRUE]
       ELSE IF (i + 1) + run > Len(src) THEN [st EXCEPT !.err = TRUE]
       ELSE IF Len(st.dst) + run > dst_len THEN [st EXCEPT !.err = TRUE]
       ELSE LET s1 == [st EXCEPT !.code = code, !.last = i + run,
                                 !.next = i + run + 1]
            IN IF run = 0 THEN cobs_decode_tail(s1, dst_len, src, i)
               ELSE s1
  ELSE IF src[i + 1] = 0 THEN [st EXCEPT !.err = TRUE]
  ELSE LET s1 == [st EXCEPT !.dst = Append(st.dst, src[i + 1])]
       IN IF i = st.last THEN cobs_decode_tail(s1, dst_len, src, i) ELSE s1

\* The loops of cobs_decode over source indices lo..hi, in two halves.
RECURSIVE cobs_decode_range(_, _, _, _, _)
cobs_decode_range(st, dst_len, src, lo, hi) ==
  IF lo > hi THEN st
  ELSE IF lo = hi THEN cobs_decode_step(st, dst_len, src, lo)
  ELSE LET mid == (lo + hi) \div 2
           left == cobs_decode_range(st, dst_len, src, lo, mid)
       IN IF left.err THEN left
          ELSE cobs_decode_range(left, dst_len, src, mid + 1, hi)

\* cobs_decode(dst, dst_len, src, src_len): n is the value returned, dst the
\* bytes written.
cobs_decode(dst_len, src) ==
  IF Len(src) = 0 THEN [n |-> 0, dst |-> <<>>]
  ELSE
    LET st == cobs_decode_range(
                [dst |-> <<>>, next |-> 0, last |-> 0, code |-> 0,
                 err |-> FALSE],
                dst_len, src, 0, Len(src) - 1)
    IN IF st.err THEN [n |-> 0, dst |-> st.dst]
       ELSE [n |-> Len(st.dst), dst |-> st.dst]

FRAME_CODEC_OVERHEAD == 6

FRAME_CODEC_MAX_WIRE_SIZE ==
  COBS_ENCODE_MAX(FRAME_CODEC_MAX_L2_SIZE + FRAME_CODEC_OVERHEAD) + 1

\* The four bytes of a 32-bit value, least significant first.
BigEndian32_reversed(v) ==
  << v.lo % 256, v.lo \div 256, v.hi % 256, v.hi \div 256 >>

\* The four bytes of a 32-bit value, most significant first.
BigEndian32(v) ==
  << v.hi \div 256, v.hi % 256, v.lo \div 256, v.lo % 256 >>

\* frame_encode(wire, wire_len, l2_frame, l2_len): n is the value returned,
\* wire the first n bytes of the buffer.
frame_encode(wire_len, l2_frame) ==
  LET l2_len == Len(l2_frame) IN
  IF l2_len = 0 \/ l2_len > FRAME_CODEC_MAX_L2_SIZE
  THEN [n |-> 0, wire |-> <<>>]
  ELSE
    LET payload_len == 2 + l2_len + 4
        head == << (l2_len \div 256) % 256, l2_len % 256 >> \o l2_frame
        payload == head \o BigEndian32(crc32c(head))
    IN IF wire_len < COBS_ENCODE_MAX(payload_len) + 1
       THEN [n |-> 0, wire |-> <<>>]
       ELSE LET e == cobs_encode(wire_len - 1, payload) IN
            IF e.n = 0 THEN [n |-> 0, wire |-> <<>>]
            ELSE [n |-> e.n + 1,
                  wire |-> SubSeq(Poke(e.dst, e.n, 0), 1, e.n + 1)]

\* frame_decode(l2_frame, l2_len, wire, wire_len): n is the value returned,
\* l2_frame the bytes copied out; wire comes without the delimiter.
frame_decode(l2_len, wire) ==
  IF Len(wire) = 0 THEN [n |-> 0, l2_frame |-> <<>>]
  ELSE
    LET d == cobs_decode(2 + FRAME_CODEC_MAX_L2_SIZE + 4, wire) IN
    IF d.n < FRAME_CODEC_OVERHEAD THEN [n |-> 0, l2_frame |-> <<>>]
    ELSE
      LET frame_len == d.dst[1] * 256 + d.dst[2] IN
      IF frame_len = 0 \/ frame_len > FRAME_CODEC_MAX_L2_SIZE
      THEN [n |-> 0, l2_frame |-> <<>>]
      ELSE IF d.n # 2 + frame_len + 4 THEN [n |-> 0, l2_frame |-> <<>>]
      ELSE
        LET crc_input_len == 2 + frame_len
            crc_computed == crc32c(SubSeq(d.dst, 1, crc_input_len))
            crc_received ==
              W32(d.dst[crc_input_len + 1] * 256 + d.dst[crc_input_len + 2],
                  d.dst[crc_input_len + 3] * 256 + d.dst[crc_input_len + 4])
        IN IF crc_computed # crc_received THEN [n |-> 0, l2_frame |-> <<>>]
           ELSE IF frame_len > l2_len THEN [n |-> 0, l2_frame |-> <<>>]
           ELSE [n |-> frame_len,
                 l2_frame |-> SubSeq(d.dst, 3, 2 + frame_len)]

----------------------------------------------------------------------------
\* Codec calls: inputs and steps

\* Everything the codec and the serial receive thread leave alone.
devstate == <<mode, vpd_dev, vpd_ports, l2, devvars, rxvars, pc, rfd, ncalls,
              last, out, lc_last, up_at_call>>
netvars == <<devstate, concvars>>

\* Longest input enumerated byte by byte, and the bytes it is built from.
MaxLen == 2
ByteSamples == {0, 1, 255}

Rep(n, b) == [i \in 1..n |-> b]

ShortFrames == UNION {[1..n -> ByteSamples] : n \in 0..MaxLen}

\* The inputs of tests/test_frame_codec.c, the boundary cases of the block
\* split, the longest frame and the first oversized one.
TestFrames ==
  { <<1, 2, 3, 4>>, <<66>>, <<17, 34, 0, 51>>, Rep(3, 0),
    <<222, 173, 190, 239, 202, 254, 1, 2, 3, 4, 5, 6, 8, 0,
      72, 101, 108, 108, 111>>,
    Rep(254, 170), Rep(255, 187), Rep(254, 170) \o <<0>>,
    Rep(FRAME_CODEC_MAX_L2_SIZE, 85), Rep(FRAME_CODEC_MAX_L2_SIZE + 1, 170) }

\* A frame with several short blocks in its stuffed form.
BlockyFrame ==
  << 0, 4, 17, 0, 17, 3, 0, 0, 11, 17, 17, 17, 17, 0, 17, 0, 17, 0, 17, 4,
     0, 0, 17, 1, 0 >>

CodecInputs == ShortFrames \cup TestFrames \cup {BlockyFrame}

\* Records whose single-bit corruptions are all tried.
CorruptInputs == {s \in CodecInputs : Len(s) <= Len(BlockyFrame)}

\* wire with bit k of its stuffed portion inverted (bit k % 8 of byte k / 8).
RECURSIVE Pow2(_)
Pow2(k) == IF k = 0 THEN 1 ELSE 2 * Pow2(k - 1)

FlipBit(wire, k) ==
  [wire EXCEPT ![(k \div 8) + 1] = Xor(@, Pow2(k % 8))]

InitCodec ==
  /\ InitVars("gw")
  /\ ~sockFile
  /\ \A i \in Slots : ~active[i]
  /\ uart = UartIdle
  /\ mtx = MtxIdle
  /\ ConcIdle
  /\ \E s \in CodecInputs : codec = [CodecIdle EXCEPT !.pc = "input", !.src = s]

\* frame_encode(wire, sizeof(wire), src, |src|) into a buffer of
\* FRAME_CODEC_MAX_WIRE_SIZE bytes.
FrameEncode ==
  /\ codec.pc = "input"
  /\ LET e == frame_encode(FRAME_CODEC_MAX_WIRE_SIZE, codec.src)
     IN codec' = [codec EXCEPT !.pc = "frame_encode", !.n = e.n,
                               !.wire = e.wire, !.res = e.wire]
  /\ UNCHANGED <<netvars, uart, mtx>>

\* frame_decode of the record without its final byte.
FrameDecode ==
  /\ codec.pc = "frame_encode"
  /\ codec.n > 0
  /\ LET d == frame_decode(FRAME_CODEC_MAX_L2_SIZE,
                           SubSeq(codec.wire, 1, codec.n - 1))
     IN codec' = [codec EXCEPT !.pc = "frame_decode", !.n = d.n,
                               !.res = d.l2_frame]
  /\ UNCHANGED <<netvars, uart, mtx>>

\* frame_decode of the record without its final byte, after one bit of it
\* was inverted on the line.
CorruptDecode ==
  /\ codec.pc = "frame_encode"
  /\ codec.n > 0
  /\ codec.src \in CorruptInputs
  /\ \E k \in 0..(8 * (codec.n - 1) - 1) :
       LET w == FlipBit(SubSeq(codec.wire, 1, codec.n - 1), k)
           d == frame_decode(FRAME_CODEC_MAX_L2_SIZE, w)
       IN codec' = [codec EXCEPT !.pc = "corrupt_decode", !.n = d.n,
                                 !.res = d.l2_frame, !.bit = k]
  /\ UNCHANGED <<netvars, uart, mtx>>

\* cobs_encode(dst, COBS_ENCODE_MAX(|src|), src, |src|)
CobsEncode ==
  /\ codec.pc = "input"
  /\ LET e == cobs_encode(COBS_ENCODE_MAX(Len(codec.src)), codec.src)
     IN codec' = [codec EXCEPT !.pc = "cobs_encode", !.n = e.n,
                               !.wire = SubSeq(e.dst, 1, e.n),
                               !.res = SubSeq(e.dst, 1, e.n)]
  /\ UNCHANGED <<netvars, uart, mtx>>

\* cobs_decode of what cobs_encode returned, into a buffer as long as the
\* input was.
CobsDecode ==
  /\ codec.pc = "cobs_encode"
  /\ codec.n > 0
  /\ LET d == cobs_decode(Len(codec.src), codec.wire)
     IN codec' = [codec EXCEPT !.pc = "cobs_decode", !.n = d.n,
                               !.res = d.dst]
  /\ UNCHANGED <<netvars, uart, mtx>>

\* The bytes cobs_encode needs for src.
EncodedLen(src) == cobs_encode(COBS_ENCODE_MAX(Len(src)), src).n

\* Output buffer sizes tried for src: none, the one byte of
\* test_cobs_buffer_too_small, one byte short, exactly what the function
\* returns, and the documented COBS_ENCODE_MAX.
DstLens(src) ==
  {0, 1, EncodedLen(src) - 1, EncodedLen(src), COBS_ENCODE_MAX(Len(src))}

\* cobs_encode(dst, dst_len, src, |src|) into a buffer of dst_len bytes.
CobsEncodeInto ==
  /\ codec.pc = "input"
  /\ \E dl \in DstLens(codec.src) :
       LET e == cobs_encode(dl, codec.src)
       IN codec' = [codec EXCEPT !.pc = "cobs_encode_into", !.n = e.n,
                                 !.dst_len = dl, !.oob = e.oob,
                                 !.wire = e.dst, !.res = e.dst]
  /\ UNCHANGED <<netvars, uart, mtx>>

NextCodec ==
  \/ FrameEncode
  \/ FrameDecode
  \/ CorruptDecode
  \/ CobsEncode
  \/ CobsDecode
  \/ CobsEncodeInto

SpecCodec == InitCodec /\ [][NextCodec]_vars

----------------------------------------------------------------------------
\* Codec properties

\* C22: for every byte sequence s with 0 < |s| <= 1522, frame_encode accepts
\* s, and frame_decode of the record without its trailing sentinel returns
\* exactly s, with the same length and the same bytes; frame_encode returns 0
\* for |s| = 0 and for |s| > 1522.
C22_FrameRoundTrip ==
  LET valid == Len(codec.src) > 0 /\ Len(codec.src) <= FRAME_CODEC_MAX_L2_SIZE
  IN /\ codec.pc = "frame_encode" => (codec.n > 0 <=> valid)
     /\ codec.pc = "frame_decode"
          => /\ valid
             /\ codec.n = Len(codec.src)
             /\ codec.res = codec.src

\* The longest frame has gone through frame_encode and frame_decode.
C22_Witness ==
  /\ codec.pc = "frame_decode"
  /\ Len(codec.src) = FRAME_CODEC_MAX_L2_SIZE
  /\ codec.n = FRAME_CODEC_MAX_L2_SIZE

\* C23: in every record frame_encode produces and in every output of
\* cobs_encode, no byte of the byte-stuffed portion is 0x00; a record ends
\* with one 0x00, its last byte.
C23_StuffedHasNoZero ==
  /\ (codec.pc = "frame_encode" /\ codec.n > 0)
       => /\ Len(codec.wire) = codec.n
          /\ codec.wire[codec.n] = 0
          /\ \A i \in 1..(codec.n - 1) : codec.wire[i] # 0
  /\ codec.pc = "cobs_encode"
       => /\ codec.n > 0
          /\ \A i \in 1..codec.n : codec.wire[i] # 0

\* A frame holding zero bytes has been encoded into a record.
C23_Witness ==
  /\ codec.pc = "frame_encode"
  /\ codec.n > 0
  /\ codec.src = BlockyFrame

\* C24: for every non-empty byte sequence s, cobs_decode of cobs_encode(s)
\* is s when the output buffer holds COBS_ENCODE_MAX(|s|) bytes; this covers
\* a run of exactly 254 non-zero bytes, a run of 255, a zero right after a
\* full run, and inputs of zeros only.
C24_CobsRoundTrip ==
  /\ (codec.pc = "cobs_encode" /\ Len(codec.src) > 0)
       => codec.n > 0 /\ codec.n <= COBS_ENCODE_MAX(Len(codec.src))
  /\ (codec.pc = "cobs_decode" /\ Len(codec.src) > 0)
       => codec.n = Len(codec.src) /\ codec.res = codec.src

\* The 255-byte run, which forces the block split, has made the round trip.
C24_Witness ==
  /\ codec.pc = "cobs_decode"
  /\ codec.src = Rep(255, 187)
  /\ codec.n = 255

\* C25: inverting any single bit of the byte-stuffed portion of a record
\* makes frame_decode return 0.
C25_SingleBitFlipRejected ==
  codec.pc = "corrupt_decode" => codec.n = 0

\* Bit flips that frame_decode does reject: every one in the record of the
\* frame {1, 2, 3, 4} of test_frame_corrupt_crc.
TestFrameFlipsRejected ==
  (codec.pc = "corrupt_decode" /\ codec.src = <<1, 2, 3, 4>>) => codec.n = 0

\* Every bit flip tried on the other inputs is rejected.
OtherFlipsRejected ==
  (codec.pc = "corrupt_decode" /\ codec.src # BlockyFrame) => codec.n = 0

----------------------------------------------------------------------------
\* Serial receive thread

\* The stuffed portion of the record of frame s: frame_encode's output
\* without the final sentinel.
Stuffed(s) ==
  LET e == frame_encode(FRAME_CODEC_MAX_WIRE_SIZE, s)
  IN SubSeq(e.wire, 1, e.n - 1)

\* Frames the peer sends in well-formed records.
GoodFrames == { <<66>>, <<1, 2, 3, 4>> }

\* Byte strings between two sentinels that are not a well-formed record:
\* line noise, a record of {1, 2, 3, 4} with one bit inverted or cut short,
\* a stuffed payload with length prefix 0, and strings that fill or overrun
\* the accumulator, one of them with the stuffed form of a frame at its end.
Noise == UNION {[1..n -> ByteSamples \ {0}] : n \in 0..MaxLen}

FlippedRecords ==
  LET w == Stuffed(<<1, 2, 3, 4>>)
  IN {FlipBit(w, k) : k \in 0..(8 * Len(w) - 1)}

CutRecords ==
  LET w == Stuffed(<<1, 2, 3, 4>>)
  IN {SubSeq(w, 1, n) : n \in 1..(Len(w) - 1)}

ZeroLengthRecord ==
  LET head == <<0, 0>>
      e == cobs_encode(COBS_ENCODE_MAX(6), head \o BigEndian32(crc32c(head)))
  IN SubSeq(e.dst, 1, e.n)

LongRecords ==
  { Rep(FRAME_CODEC_MAX_WIRE_SIZE, 85),
    Rep(FRAME_CODEC_MAX_WIRE_SIZE + 1, 85),
    Rep(FRAME_CODEC_MAX_WIRE_SIZE + 2, 85),
    Rep(FRAME_CODEC_MAX_WIRE_SIZE + 1, 85) \o Stuffed(<<66>>) }

BadRecords ==
  {b \in Noise \cup FlippedRecords \cup CutRecords \cup {ZeroLengthRecord}
           \cup LongRecords : \A i \in 1..Len(b) : b[i] # 0}

\* The serial line carries a bad record, its sentinel, and a well-formed
\* record; uart_l2_transport_init has stored the callback and started the
\* thread.  bad_n is what frame_decode returns for the bad record as a whole.
InitUart ==
  /\ InitVars("gw")
  /\ ~sockFile
  /\ \A i \in Slots : ~active[i]
  /\ codec = CodecIdle
  /\ mtx = MtxIdle
  /\ ConcIdle
  /\ \E b \in BadRecords, g \in GoodFrames :
       uart = [UartIdle EXCEPT
                 !.stream = b \o <<0>> \o Stuffed(g) \o <<0>>,
                 !.bad_len = Len(b),
                 !.bad_n = frame_decode(FRAME_CODEC_MAX_L2_SIZE, b).n,
                 !.good = g]

\* The body of the for loop of rx_thread_func for one byte b read from the
\* serial descriptor; s_rx_cb is the callback stored by init (non-NULL).
rx_byte(st, b) ==
  IF b = 0
  THEN IF Len(st.accum) > 0
       THEN LET d == frame_decode(FRAME_CODEC_MAX_L2_SIZE, st.accum)
            IN [st EXCEPT !.accum = <<>>,
                          !.delivered = IF d.n > 0 THEN Append(@, d.l2_frame)
                                        ELSE @,
                          !.results = Append(@, d.n)]
       ELSE [st EXCEPT !.accum = <<>>]
  ELSE IF Len(st.accum) < FRAME_CODEC_MAX_WIRE_SIZE
       THEN [st EXCEPT !.accum = Append(@, b)]
       ELSE [st EXCEPT !.accum = <<>>]

\* The thread takes the next byte of the line: a sentinel.
UartRxSentinel ==
  /\ s_rx_running
  /\ s_fd >= 0
  /\ uart.pos < Len(uart.stream)
  /\ uart.stream[uart.pos + 1] = 0
  /\ uart' = [rx_byte(uart, 0) EXCEPT !.pos = @ + 1, !.seen = @ + 1]
  /\ UNCHANGED <<netvars, codec, mtx>>

\* The thread takes the next byte of the line: not a sentinel.
UartRxData ==
  /\ s_rx_running
  /\ s_fd >= 0
  /\ uart.pos < Len(uart.stream)
  /\ uart.stream[uart.pos + 1] # 0
  /\ uart' = [rx_byte(uart, uart.stream[uart.pos + 1]) EXCEPT !.pos = @ + 1]
  /\ UNCHANGED <<netvars, codec, mtx>>

NextUart ==
  \/ UartRxSentinel
  \/ UartRxData

SpecUart == InitUart /\ [][NextUart]_vars

\* The byte taken last was a sentinel.
AtSentinel == uart.pos > 0 /\ uart.stream[uart.pos] = 0

\* C26: a record that fails decoding produces no received-frame callback and
\* leaves the accumulator empty at its sentinel, and the well-formed record
\* that follows is delivered exactly once and unchanged, whatever bytes the
\* bad record held.
C26_BadRecordDroppedNextDelivered ==
  /\ AtSentinel => uart.accum = <<>>
  /\ uart.bad_n = 0
       => /\ uart.seen = 1 => uart.delivered = <<>>
          /\ uart.seen = 2 => uart.delivered = <<uart.good>>

\* The same for bad records that fit the accumulator.
FittingBadRecordDropped ==
  /\ AtSentinel => uart.accum = <<>>
  /\ (uart.bad_n = 0 /\ uart.bad_len <= FRAME_CODEC_MAX_WIRE_SIZE)
       => /\ uart.seen = 1 => uart.delivered = <<>>
          /\ uart.seen = 2 => uart.delivered = <<uart.good>>

\* A record with one inverted bit was dropped and the next one delivered.
FittingBadRecordDropped_Witness ==
  /\ uart.seen = 2
  /\ uart.bad_n = 0
  /\ uart.bad_len = Len(Stuffed(<<1, 2, 3, 4>>))
  /\ uart.results = <<0, Len(uart.good)>>
  /\ uart.delivered = <<uart.good>>

----------------------------------------------------------------------------
\* Error handling of the IPC device

\* C27: a flood send on the IPC device with valid arguments returns I/O if
\* and only if at least one of its per-peer writes failed, and success
\* otherwise, also when it had no slot to write to; a write that failed does
\* not keep the flood from writing to the remaining peers.
C27_FloodIoIffWriteFailed ==
  [][(SendCall /\ last'.port = 0 /\ last'.inp
        /\ last'.len > 0 /\ last'.len <= VIRTUAL_PORT_MAX_FRAME_LEN)
     => /\ last'.err = IF \E k \in 1..Len(last'.wire) : ~last'.wire[k].ok
                       THEN "BmEIO" ELSE "BmOK"
        /\ \A i \in Slots :
             (active[i] /\ send_fd[i] >= 0)
               => Cardinality(WritesTo(last'.wire, i)) = 1]_vars

\* A flood whose first write failed went on to write to the next peer and
\* returned I/O.
C27_Witness ==
  /\ last.op = "send" /\ last.port = 0 /\ last.done
  /\ last.err = "BmEIO"
  /\ Len(last.wire) = 2
  /\ ~last.wire[1].ok /\ last.wire[2].ok

\* A flood with no open outbound handle wrote nothing and returned success.
EmptyFloodSucceeds ==
  [][(SendCall /\ last'.port = 0 /\ last'.inp
        /\ last'.len > 0 /\ last'.len <= VIRTUAL_PORT_MAX_FRAME_LEN
        /\ \A i \in Slots : ~(active[i] /\ send_fd[i] >= 0))
     => last'.err = "BmOK" /\ last'.wire = <<>>]_vars

----------------------------------------------------------------------------
\* The device mutex

\* What a thread has left to do of an operation, as far as the mutex and the
\* upward callbacks go: pthread_mutex_lock, pthread_mutex_unlock, the
\* invocation of a callback ("cb"), pthread_create of the receive thread
\* ("spawn"), pthread_join on it ("join"), and the return of a call that was
\* made from inside a callback ("ret").  The mutex is a default one: a thread
\* that locks it while holding it never returns.
Locked(body) == <<"lock">> \o body \o <<"unlock">>

RECURSIVE Times(_, _)
Times(n, path) == IF n = 0 THEN <<>> ELSE path \o Times(n - 1, path)

\* vpd_send: argument errors return before the lock; unicast reads the slot
\* under the lock; flood locks once per slot.  sendto runs unlocked.
send_paths ==
  {<<>>, Locked(<<>>), Times(VIRTUAL_PORT_MAX_PEERS, Locked(<<>>))}

\* Per-port operations that invoke link_change before releasing the lock.
port_op_paths_cb_locked ==
  {<<>>, Locked(<<>>), Locked(<<"cb">>)}

\* vpd_enable_port, vpd_disable_port and vpd_retry_negotiation: bad port
\* number; slot not active (or, for retry, no peer path or no socket); else
\* link_change after the unlock (when the pointer is set).
port_op_paths ==
  {<<>>, Locked(<<>>), Locked(<<>>) \o <<"cb">>}

\* vpd_enable: everything runs under the lock and no callback is invoked;
\* the successful path creates the receive thread.
enable_paths(alive) ==
  IF alive THEN {Locked(<<>>)} ELSE {Locked(<<>>), Locked(<<"spawn">>)}

\* vpd_disable: not enabled; else the state change under the lock, the join,
\* the close of the send sockets under the lock, then one link_change per
\* configured slot (when the pointer is set).
disable_paths(alive) ==
  IF ~alive THEN {Locked(<<>>)}
  ELSE {Locked(<<>>) \o <<"join">> \o Locked(<<>>) \o Times(k, <<"cb">>) :
          k \in 0..VIRTUAL_PORT_MAX_PEERS}

\* One pass of the loop of vpd_rx_thread: the running check under the lock,
\* then nothing more (timeout, short or misaddressed datagram, exit), or the
\* snapshot of the receive pointer under the lock and the call after it.
rx_paths ==
  {Locked(<<>>), Locked(<<>>) \o Locked(<<>>),
   Locked(<<>>) \o Locked(<<>>) \o <<"cb">>}

\* Operations the upper stack calls from inside a callback.
ReentrantPaths == send_paths \cup port_op_paths

Doing(t, what) == mtx.todo[t] # <<>> /\ Head(mtx.todo[t]) = what
Advance(t) == [mtx EXCEPT !.todo[t] = Tail(@)]

InitMtx ==
  /\ InitVars("ipc")
  /\ codec = CodecIdle
  /\ uart = UartIdle
  /\ mtx = MtxIdle
  /\ ConcIdle

\* The upper stack calls a device operation.
MtxCall ==
  /\ mtx.todo["caller"] = <<>>
  /\ \E p \in ReentrantPaths \cup enable_paths(mtx.rx_alive)
                \cup disable_paths(mtx.rx_alive) :
       p # <<>> /\ mtx' = [mtx EXCEPT !.todo["caller"] = p]
  /\ UNCHANGED <<netvars, codec, uart>>

\* The receive thread starts a pass of its loop.
MtxRxPass ==
  /\ mtx.rx_alive
  /\ mtx.todo["rx"] = <<>>
  /\ \E p \in rx_paths : mtx' = [mtx EXCEPT !.todo["rx"] = p]
  /\ UNCHANGED <<netvars, codec, uart>>

\* pthread_mutex_lock returns once the mutex is free.
MtxLock(t) ==
  /\ Doing(t, "lock")
  /\ mtx.holder = "free"
  /\ mtx' = [Advance(t) EXCEPT !.holder = t]
  /\ UNCHANGED <<netvars, codec, uart>>

MtxUnlock(t) ==
  /\ Doing(t, "unlock")
  /\ mtx' = [Advance(t) EXCEPT !.holder = "free"]
  /\ UNCHANGED <<netvars, codec, uart>>

MtxSpawn ==
  /\ Doing("caller", "spawn")
  /\ mtx' = [Advance("caller") EXCEPT !.rx_alive = TRUE]
  /\ UNCHANGED <<netvars, codec, uart>>

\* pthread_join returns when the receive thread has left its loop.
MtxJoin ==
  /\ Doing("caller", "join")
  /\ mtx.todo["rx"] = <<>>
  /\ mtx' = [Advance("caller") EXCEPT !.rx_alive = FALSE]
  /\ UNCHANGED <<netvars, codec, uart>>

\* The callback runs on the invoking thread: it returns, or it calls back
\* into the device first.
MtxCallback(t) ==
  /\ Doing(t, "cb")
  /\ \/ mtx' = Advance(t)
     \/ /\ ~mtx.nested[t]
        /\ \E p \in ReentrantPaths :
             mtx' = [mtx EXCEPT !.todo[t] = p \o <<"ret">> \o Tail(@),
                                !.nested[t] = TRUE]
  /\ UNCHANGED <<netvars, codec, uart>>

MtxReturn(t) ==
  /\ Doing(t, "ret")
  /\ mtx' = [Advance(t) EXCEPT !.nested[t] = FALSE]
  /\ UNCHANGED <<netvars, codec, uart>>

NextMtx ==
  \/ MtxCall
  \/ MtxRxPass
  \/ \E t \in Threads : MtxLock(t)
  \/ \E t \in Threads : MtxUnlock(t)
  \/ MtxSpawn
  \/ MtxJoin
  \/ \E t \in Threads : MtxCallback(t)
  \/ \E t \in Threads : MtxReturn(t)

SpecMtx == InitMtx /\ [][NextMtx]_vars

\* C28: whenever a thread of the IPC device is about to invoke the receive
\* or link_change callback it does not hold the device mutex, and no thread
\* ever waits for the mutex while holding it: a callback that calls send,
\* enable_port, disable_port or retry_negotiation gets the lock.
C28_CallbacksOutsideLock ==
  \A t \in Threads :
    /\ Doing(t, "cb") => mtx.holder # t
    /\ Doing(t, "lock") => mtx.holder # t

\* The receive callback, on the receive thread, has called back into the
\* device and holds the mutex there.
C28_Witness ==
  /\ mtx.nested["rx"]
  /\ mtx.holder = "rx"
  /\ Doing("rx", "unlock")

\* C29: whenever enable on the IPC device returns an I/O error, the device
\* state is the state before the call: not enabled, no receive handle, no
\* receive thread, and every outbound handle as it was (unopened).
C29_EnableFailureLeavesState ==
  [][(CallOf("enable") /\ last'.done /\ last'.err = "BmEIO")
     => /\ ~enabled' /\ recv_fd' = -1 /\ ~rx_running' /\ rxpc' = rxpc
        /\ send_fd' = send_fd]_vars

\* What does hold after a failed enable: the receive side is as before, and
\* the only handles that differ are outbound handles of configured slots that
\* the call opened.
EnableFailureLeavesReceiveSide ==
  [][(CallOf("enable") /\ last'.done /\ last'.err = "BmEIO")
     => /\ ~enabled' /\ recv_fd' = -1 /\ ~rx_running' /\ rxpc' = rxpc
        /\ \A i \in Slots :
             send_fd'[i] # send_fd[i] => active[i] /\ send_fd[i] < 0]_vars

\* C30: each receive(p, frame) callback of the IPC device is preceded by a
\* link_change callback reporting p up.  lc_last keeps the latest report per
\* port argument, so the formula states the part of the claim it can: when
\* receive(p) is delivered, some link_change has been delivered for the slot
\* of p, under the argument the device uses for it (p - 1) or under p.
C30_ReceiveAfterLinkUp ==
  [][\A k \in 1..Len(out') :
       out'[k].cb = "receive"
         => \/ lc_last[out'[k].port - 1] # "none"
            \/ lc_last[out'[k].port] # "none"]_vars

\* A frame was delivered on a port whose latest report is link-up.
ReceiveOnReportedPort ==
  /\ out # <<>> /\ out[1].cb = "receive"
  /\ lc_last[out[1].port - 1] = "up"

----------------------------------------------------------------------------
\* Composite enable and disable

\* What a composite enable call shows when it has gone through: the serial
\* link-up is delivered exactly when the IPC underlay's enable succeeded,
\* the underlay being enabled by then, and the call returns the underlay's
\* result.
EnableOrder ==
  /\ last'.err = "BmOK" <=> enabled'
  /\ out' = IF last'.err = "BmOK" THEN GwLC(uart_port, TRUE) ELSE <<>>

\* What a composite disable call shows when it has gone through its head:
\* the serial link-down is the one callback delivered so far, the serial
\* transport is closed, and the IPC underlay has either returned BmOK at once
\* (it was not enabled) or is about to close its receive socket.
DisableOrder ==
  /\ out' = GwLC(uart_port, FALSE)
  /\ s_fd' = -1
  /\ IF enabled
     THEN ~last'.done /\ pc' = "dis_close" /\ recv_fd' = -1 /\ rfd' \in fds'
     ELSE last'.done /\ last'.err = "BmOK" /\ pc' = "idle"

\* The end of the IPC underlay's disable is the end of the composite's: its
\* result is returned and nothing more is said about the serial port.
DisableEnd ==
  (pc = "dis_lc" /\ pc' = "idle")
    => /\ last'.done /\ last'.err = "BmOK"
       /\ \A k \in 1..Len(out') : out'[k].port # uart_port

\* C31: composite enable first enables the IPC underlay and only then, and
\* only if that succeeded, signals link-up for the serial port; composite
\* disable signals serial link-down first, then tears down the serial
\* transport, then disables the IPC underlay, and returns the IPC underlay's
\* result.
C31_CompositeEnableDisableOrder ==
  [][/\ CallOf("enable") => (pc' # "crashed" /\ EnableOrder)
     /\ CallOf("disable") => (pc' # "crashed" /\ DisableOrder)
     /\ DisableEnd]_vars

\* The same order for the calls that get past the dereference of s_gw.vpd.
CompletedEnableDisableOrder ==
  [][/\ (CallOf("enable") /\ pc' # "crashed") => EnableOrder
     /\ (CallOf("disable") /\ pc' # "crashed") => DisableOrder
     /\ DisableEnd]_vars

\* A composite disable that died in the dereference had already delivered
\* the serial link-down and closed the serial transport.
CrashedDisableOrder ==
  [][(CallOf("disable") /\ pc' = "crashed")
     => out' = GwLC(uart_port, FALSE) /\ s_fd' = -1]_vars

----------------------------------------------------------------------------
\* Accumulator overflow in the serial receive thread

\* The first record of the line has more bytes than the accumulator holds.
Oversize == uart.bad_len > FRAME_CODEC_MAX_WIRE_SIZE

\* C32: when the serial receive loop sees more non-sentinel bytes than the
\* accumulator can hold, every byte of that oversize record up to the next
\* sentinel is discarded: no decode attempt and no callback is made for any
\* part of it, and the first record after that sentinel is decoded normally.
C32_OversizeRecordDiscarded ==
  Oversize
    => /\ uart.seen = 1 => uart.results = <<>> /\ uart.delivered = <<>>
       /\ uart.seen = 2 => /\ uart.results = <<Len(uart.good)>>
                           /\ uart.delivered = <<uart.good>>

\* What holds of every oversize record: the record after its sentinel is
\* decoded and delivered, last and unchanged.
RecordAfterOversizeDelivered ==
  (Oversize /\ uart.seen = 2)
    => /\ Len(uart.delivered) > 0
       /\ uart.delivered[Len(uart.delivered)] = uart.good
       /\ uart.results[Len(uart.results)] = Len(uart.good)

\* An oversize record of exactly one byte too many is discarded whole.
RecordAfterOversizeDelivered_Witness ==
  /\ uart.seen = 2
  /\ uart.bad_len = FRAME_CODEC_MAX_WIRE_SIZE + 1
  /\ uart.results = <<Len(uart.good)>>
  /\ uart.delivered = <<uart.good>>

----------------------------------------------------------------------------
\* Bounds of the writes of cobs_encode

\* The number of non-zero bytes after the last zero of src.
TrailingRun(src) ==
  LET zeros == {0} \cup {i \in 1..Len(src) : src[i] = 0}
  IN Len(src) - (CHOOSE m \in zeros : \A z \in zeros : z <= m)

\* The source ends exactly at the end of a full block of 254 non-zero bytes.
EndsOnFullRun(src) == TrailingRun(src) > 0 /\ TrailingRun(src) % 254 = 0

\* C40: cobs_encode never writes to dst at an index >= dst_len, for every
\* input and every dst_len, including an input that ends exactly at a full
\* 254-byte non-zero run with dst_len equal to the number of bytes the
\* function returns; when the output does not fit it returns 0.
C40_CobsEncodeInBounds ==
  codec.pc = "cobs_encode_into"
    => /\ ~codec.oob
       /\ Len(codec.wire) <= codec.dst_len
       /\ codec.dst_len < EncodedLen(codec.src) => codec.n = 0

\* What holds of every call: the value returned is the encoded length when
\* the buffer has that many bytes and 0 when it has fewer; a write past the
\* buffer happens only for a source ending on a full run encoded into a
\* buffer shorter than COBS_ENCODE_MAX, and it is the one byte at dst[dst_len].
CobsEncodeReturnsLenOrZero ==
  codec.pc = "cobs_encode_into"
    => /\ codec.n = IF codec.dst_len >= EncodedLen(codec.src)
                    THEN EncodedLen(codec.src) ELSE 0
       /\ Len(codec.wire) <= codec.dst_len + 1
       /\ codec.oob <=> Len(codec.wire) = codec.dst_len + 1
       /\ codec.oob => /\ EndsOnFullRun(codec.src)
                       /\ codec.dst_len = EncodedLen(codec.src)
                       /\ codec.dst_len < COBS_ENCODE_MAX(Len(codec.src))

\* A frame into the one-byte buffer of test_cobs_buffer_too_small: refused.
CobsEncodeReturnsLenOrZero_Witness ==
  /\ codec.pc = "cobs_encode_into"
  /\ codec.src = <<1, 2, 3, 4>>
  /\ codec.dst_len = 1
  /\ codec.n = 0

----------------------------------------------------------------------------
\* The IPC device while it is not enabled

\* No call is in progress and the device is not enabled.
Disabled == pc = "idle" /\ ~enabled

NothingOpenOrUp ==
  /\ \A i \in Slots : send_fd[i] < 0
  /\ \A a \in LcArgs : lc_last[a] # "up"

\* C38: while the IPC device is not enabled (before the first enable and
\* after disable), no outbound handle is open and no port is reported
\* link-up: enable_port() and retry_negotiation() called in that state open
\* no handle and deliver no link_change(up).
C38_DisabledDeviceIsClosed ==
  [][(Disabled /\ pc' = "idle" /\ ~enabled')
       => /\ \A i \in Slots : send_fd'[i] >= 0 => send_fd[i] >= 0
          /\ \A k \in 1..Len(out') : ~out'[k].up
          /\ NothingOpenOrUp']_vars

\* What disable does establish: when it returns after undoing an enable, no
\* outbound handle is open and no port is reported link-up.
DisableClosesAll ==
  [][(pc = "dis_lc" /\ pc' = "idle") => (~enabled' /\ NothingOpenOrUp')]_vars

\* The two per-port calls alone, on a device that is not enabled.
PortCallsInertWhileDisabled ==
  [][(Disabled /\ (CallOf("enable_port") \/ CallOf("retry_negotiation")))
       => /\ \A i \in Slots : send_fd'[i] >= 0 => send_fd[i] >= 0
          /\ \A k \in 1..Len(out') : ~out'[k].up]_vars

----------------------------------------------------------------------------
\* Port numbering of the callbacks

\* The port numbers the device uses for its configured links in send and
\* receive: i + 1 for peer slot i, and in the composite N + 1 for the serial
\* link.
LinkPorts ==
  {i + 1 : i \in {j \in Slots : active[j]}}
    \cup (IF mode = "gw" THEN {uart_port} ELSE {})

\* C39: the port argument of every link_change callback uses the same
\* numbering as receive() and send() for the same link: for peer slot i the
\* device passes port i + 1 to link_change just as it does to receive, and in
\* the composite the serial port's link_change argument follows the same
\* convention as the IPC ports' and lies within the device's port range.
C39_LinkChangeUsesPortNumbers ==
  [][\A k \in 1..Len(out') :
       out'[k].cb = "link_change"
         => /\ out'[k].port \in LinkPorts
            /\ out'[k].port \in 1..num_ports
            /\ (\E o \in PortOps : CallOf(o)) => out'[k].port = last'.port]_vars

\* The numbering the IPC device does use for link_change: the 0-based slot
\* index, one less than the port of the same link in send and receive.
LinkChangeUsesSlotIndex ==
  [][\A k \in 1..Len(out') :
       (out'[k].cb = "link_change" /\ mode = "ipc")
         => /\ out'[k].port \in Slots
            /\ active[out'[k].port]
            /\ (\E o \in PortOps : CallOf(o))
                 => out'[k].port = last'.port - 1]_vars

\* receive is given the 1-based port.
ReceiveUsesPortNumbers ==
  [][\A k \in 1..Len(out') :
       out'[k].cb = "receive"
         => out'[k].port \in 1..VIRTUAL_PORT_MAX_PEERS]_vars

\* The composite's serial link_change argument is N + 1, the serial port of
\* send, and the last port of the device.
SerialLinkChangeUsesPortNumber ==
  [][\A k \in 1..Len(out') :
       (out'[k].cb = "link_change" /\ mode = "gw")
         => out'[k].port = vpd_ports + 1 /\ out'[k].port = gw_num_ports]_vars

----------------------------------------------------------------------------
\* Concurrent uart_l2_send

\* pthread_mutex_lock(&s_tx_mutex) without the wait for the holder.
tx_mutex_available_unlocked(holder) == TRUE

\* pthread_mutex_lock(&s_tx_mutex) returns when nobody holds the mutex.
tx_mutex_available(holder) == holder = "free"

\* Byte counts write(s_fd, p, remaining) may return: all of it, or less.
WriteCounts(remaining) == {remaining} \cup ({remaining \div 2} \ {0})

InitTx ==
  /\ InitVars("gw")
  /\ ~sockFile
  /\ \A i \in Slots : ~active[i]
  /\ codec = CodecIdle
  /\ uart = UartIdle
  /\ mtx = MtxIdle
  /\ ConcIdle

\* uart_l2_send up to the mutex: the argument checks and frame_encode into
\* the caller's own wire buffer.
TxCall(t) ==
  /\ tx.snd[t].pc = "idle"
  /\ s_fd >= 0
  /\ \E f \in GoodFrames :
       LET e == frame_encode(FRAME_CODEC_MAX_WIRE_SIZE, f)
       IN /\ e.n > 0
          /\ tx' = [tx EXCEPT !.snd[t] = [SenderIdle EXCEPT !.pc = "lock",
                                                            !.wire = e.wire]]
  /\ UNCHANGED <<devstate, codec, uart, mtx, ser, snd, thr, duo>>

\* pthread_mutex_lock, then p = wire, remaining = wire_len, result = 0.
TxLock(t) ==
  /\ tx.snd[t].pc = "lock"
  /\ tx_mutex_available(tx.holder)
  /\ tx' = [tx EXCEPT !.holder = t,
                      !.calls = Append(@, [who |-> t, wire |-> tx.snd[t].wire,
                                           done |-> FALSE, rc |-> 0]),
                      !.snd[t].pc = "write",
                      !.snd[t].remaining = Len(tx.snd[t].wire),
                      !.snd[t].entry = Len(tx.calls) + 1]
  /\ UNCHANGED <<devstate, codec, uart, mtx, ser, snd, thr, duo>>

\* One pass of the write loop in which write() took written bytes.  A write
\* interrupted by a signal (EINTR) is retried and changes nothing.
TxWrite(t) ==
  /\ tx.snd[t].pc = "write"
  /\ LET me == tx.snd[t]
         from == Len(me.wire) - me.remaining
     IN \E written \in WriteCounts(me.remaining) :
          tx' = [tx EXCEPT
                   !.line = @ \o SubSeq(me.wire, from + 1, from + written),
                   !.snd[t].remaining = me.remaining - written,
                   !.snd[t].pc = IF me.remaining = written THEN "unlock"
                                 ELSE "write"]
  /\ UNCHANGED <<devstate, codec, uart, mtx, ser, snd, thr, duo>>

\* write() failed with another error: result = -1 and the loop is left.
TxWriteError(t) ==
  /\ tx.snd[t].pc = "write"
  /\ tx' = [tx EXCEPT !.snd[t].result = -1, !.snd[t].pc = "unlock"]
  /\ UNCHANGED <<devstate, codec, uart, mtx, ser, snd, thr, duo>>

\* pthread_mutex_unlock and return result.
TxUnlock(t) ==
  /\ tx.snd[t].pc = "unlock"
  /\ tx' = [tx EXCEPT !.holder = "free",
                      !.calls[tx.snd[t].entry].done = TRUE,
                      !.calls[tx.snd[t].entry].rc = tx.snd[t].result,
                      !.snd[t] = [SenderIdle EXCEPT !.pc = "returned"]]
  /\ UNCHANGED <<devstate, codec, uart, mtx, ser, snd, thr, duo>>

NextTxMutex ==
  \E t \in Senders :
    \/ TxCall(t)
    \/ TxLock(t)
    \/ TxWrite(t)
    \/ TxWriteError(t)
    \/ TxUnlock(t)

SpecTxMutex == InitTx /\ [][NextTxMutex]_vars

\* line is the records of calls one after the other, in that order, each cut
\* to some length the call's outcome allows.  A call that returned 0
\* contributes its whole record and a call still writing any prefix of it;
\* a call that returned -1 contributes all or nothing of its record when
\* whole is TRUE, and any prefix of it otherwise.
RECURSIVE Concatenates(_, _, _)
Concatenates(line, calls, whole) ==
  IF calls = <<>> THEN line = <<>>
  ELSE LET c == Head(calls) IN
       \E k \in 0..Len(c.wire) :
         /\ k <= Len(line)
         /\ (c.done /\ c.rc = 0) => k = Len(c.wire)
         /\ (c.done /\ c.rc = -1 /\ whole) => k \in {0, Len(c.wire)}
         /\ SubSeq(line, 1, k) = SubSeq(c.wire, 1, k)
         /\ Concatenates(SubSeq(line, k + 1, Len(line)), Tail(calls), whole)

\* C33: for any number of concurrent uart_l2_send calls, the bytes written to
\* the serial device form a concatenation of complete encoded records: the
\* bytes of one call, including across partial writes, are never interleaved
\* with bytes of another call.
C33_WholeRecordsOnTheLine == Concatenates(tx.line, tx.calls, TRUE)

\* C33, amended: for any number of concurrent uart_l2_send calls, the bytes
\* written to the serial device are the calls' encoded records one after the
\* other, complete for every call that returned 0 and cut short where the
\* write failed for a call that returned -1: the bytes of one call, including
\* across partial writes, are never interleaved with bytes of another call.
C33_RecordsNotInterleaved == Concatenates(tx.line, tx.calls, FALSE)

\* All three callers have returned 0 and their records are on the line one
\* after the other, in the order in which they took the mutex.
C33_Witness ==
  /\ Len(tx.calls) = 3
  /\ \A k \in 1..3 : tx.calls[k].done /\ tx.calls[k].rc = 0
  /\ tx.line = tx.calls[1].wire \o tx.calls[2].wire \o tx.calls[3].wire
  /\ tx.calls[1].wire # tx.calls[2].wire

----------------------------------------------------------------------------
\* Shutdown of the serial transport

nonserial == <<mode, vpd_dev, vpd_ports, l2, active, send_fd, recv_fd,
               rx_running, enabled, callbacks, cbs, sockFile, rxvars, pc, rfd,
               ncalls, last, out, lc_last, up_at_call, codec, uart, mtx, tx,
               snd, thr, duo>>

InitSer ==
  /\ InitVars("gw")
  /\ ~sockFile
  /\ \A i \in Slots : ~active[i]
  /\ codec = CodecIdle
  /\ uart = UartIdle
  /\ mtx = MtxIdle
  /\ ConcIdle

\* The far end sends one more record; the line takes bytes as long as
\* somebody holds the device open, a thread inside read() included.
SerRecordArrives ==
  /\ ser.arrived < MaxOps
  /\ UartFd \in fds \/ ser.rxpc = "blocked"
  /\ ser' = [ser EXCEPT !.pending = @ + 1, !.arrived = @ + 1]
  /\ UNCHANGED <<s_fd, s_rx_running, fds, nonserial>>

\* while (s_rx_running): the thread goes on to read(s_fd, ...) or leaves.
\* s_rx_running and s_fd are plain variables written by deinit without a
\* lock; the thread sees the value of before or after that write, which is
\* the order of this step and the steps of deinit.
SerRxCheck ==
  /\ ser.rxpc = "loop"
  /\ ser' = IF s_rx_running
            THEN [ser EXCEPT !.rxpc = "read", !.rd_fd = s_fd]
            ELSE [ser EXCEPT !.rxpc = "exited"]
  /\ UNCHANGED <<s_fd, s_rx_running, fds, nonserial>>

\* read(fd, ...) is entered: on a descriptor that is not open it fails with
\* EBADF, a fatal read error that ends the thread; on the open device it
\* blocks until a byte is there (VMIN = 1, and the VTIME timer starts only
\* with the first byte).
SerRxRead ==
  /\ ser.rxpc = "read"
  /\ ser' = [ser EXCEPT !.rxpc = IF ser.rd_fd \in fds THEN "blocked"
                                 ELSE "exited"]
  /\ UNCHANGED <<s_fd, s_rx_running, fds, nonserial>>

\* read() returns the bytes pending; every record among them is decoded and
\* handed to s_rx_cb if that is set.
SerRxData ==
  /\ ser.rxpc = "blocked"
  /\ ser.pending > 0
  /\ ser' = [ser EXCEPT
               !.rxpc = "loop",
               !.pending = 0,
               !.cb_calls = IF ser.s_rx_cb THEN @ + ser.pending ELSE @,
               !.late_cb = @ \/ (ser.s_rx_cb /\ ser.dpc = "returned")]
  /\ UNCHANGED <<s_fd, s_rx_running, fds, nonserial>>

\* uart_l2_transport_deinit on an initialized transport: s_rx_running = false.
SerDeinitBegin ==
  /\ ser.dpc = "idle"
  /\ ser.ops < MaxOps
  /\ s_fd >= 0
  /\ s_rx_running' = FALSE
  /\ ser' = [ser EXCEPT !.dpc = "close", !.ops = @ + 1]
  /\ UNCHANGED <<s_fd, fds, nonserial>>

\* close(s_fd); s_fd = -1.  What close() does to a thread blocked in read()
\* on the same descriptor is left open by POSIX: the read may fail at once,
\* or stay blocked until a byte arrives (as on Linux, where the blocked call
\* keeps the open file).
SerDeinitClose ==
  /\ ser.dpc = "close"
  /\ fds' = fds \ {s_fd}
  /\ s_fd' = -1
  /\ \E wakes \in (IF ser.rxpc = "blocked" THEN BOOLEAN ELSE {FALSE}) :
       ser' = [ser EXCEPT !.dpc = "join",
                          !.rxpc = IF wakes THEN "exited" ELSE @]
  /\ UNCHANGED <<s_rx_running, nonserial>>

\* pthread_join(s_rx_thread) returns once the thread has ended; then
\* s_rx_cb = nullptr, s_rx_ctx = nullptr, and deinit returns.
SerDeinitJoin ==
  /\ ser.dpc = "join"
  /\ ser.rxpc = "exited"
  /\ ser' = [ser EXCEPT !.dpc = "returned", !.s_rx_cb = FALSE]
  /\ UNCHANGED <<s_fd, s_rx_running, fds, nonserial>>

\* uart_l2_send of a one-byte frame by the thread that also calls deinit.
SerSend ==
  /\ ser.dpc \in {"idle", "returned"}
  /\ ser.ops < MaxOps
  /\ \E wr \in UartOutcomes(1, uart_port) :
       LET u == uart_l2_send(TRUE, 1, wr)
       IN ser' = [ser EXCEPT !.ops = @ + 1, !.send_rc = u.rc,
                             !.wrote = u.wire # <<>>]
  /\ UNCHANGED <<s_fd, s_rx_running, fds, nonserial>>

\* uart_l2_transport_init after a deinit: the device is opened again and a
\* new receive thread started.
SerInit ==
  /\ ser.dpc = "returned"
  /\ ser.ops < MaxOps
  /\ s_fd < 0
  /\ s_fd' = UartFd
  /\ fds' = fds \cup {UartFd}
  /\ s_rx_running' = TRUE
  /\ ser' = [ser EXCEPT !.dpc = "idle", !.ops = @ + 1, !.s_rx_cb = TRUE,
                        !.rxpc = "loop", !.rd_fd = -1]
  /\ UNCHANGED nonserial

SerRxStep == SerRxCheck \/ SerRxRead \/ SerRxData
SerDeinitStep == SerDeinitClose \/ SerDeinitJoin

NextSer ==
  \/ SerRecordArrives
  \/ SerRxCheck
  \/ SerRxRead
  \/ SerRxData
  \/ SerDeinitBegin
  \/ SerDeinitClose
  \/ SerDeinitJoin
  \/ SerSend
  \/ SerInit

SpecSer == InitSer /\ [][NextSer]_vars

\* Both threads keep running; whether the far end sends anything is up to
\* the far end.
LiveSpecSer == SpecSer /\ WF_vars(SerRxStep) /\ WF_vars(SerDeinitStep)

\* deinit has returned and the transport has not been initialized again.
DeinitReturned == ser.dpc = "returned"

\* What holds once deinit has returned.
AfterDeinit ==
  /\ ser.rxpc = "exited"
  /\ ~ser.late_cb
  /\ ~ser.s_rx_cb
  /\ s_fd < 0 /\ ~s_rx_running /\ UartFd \notin fds

\* A uart_l2_send made after deinit has returned.
SendAfterDeinit ==
  DeinitReturned /\ ser'.dpc = "returned" /\ ser'.ops = ser.ops + 1

\* C34: uart_l2_transport_deinit on an initialized transport always
\* eventually returns, even when the receive thread is blocked in read with
\* no incoming bytes; after it returns the receive thread has exited, the
\* received-frame callback is never invoked again, the callback pointers are
\* cleared, and uart_l2_send fails without writing.
C34_DeinitReturnsAndSilences ==
  /\ (ser.dpc = "close") ~> DeinitReturned
  /\ [](DeinitReturned => AfterDeinit)
  /\ [][SendAfterDeinit => (ser'.send_rc = -1 /\ ~ser'.wrote)]_vars

\* The part that holds: whenever deinit does return, the thread has exited,
\* no callback comes any more, the pointers are cleared and sends fail
\* without writing.
DeinitSilences ==
  /\ [](DeinitReturned => AfterDeinit)
  /\ [][SendAfterDeinit => (ser'.send_rc = -1 /\ ~ser'.wrote)]_vars

\* deinit returns unless the receive thread stays blocked in read().
DeinitReturnsUnlessReaderBlocked ==
  (ser.dpc = "close")
    ~> (DeinitReturned \/ (ser.dpc = "join" /\ ser.rxpc = "blocked"))

\* A send after deinit has returned.
DeinitSilences_Witness ==
  /\ DeinitReturned
  /\ ser.send_rc = -1
  /\ ser.ops = 2
  /\ ser.cb_calls > 0

----------------------------------------------------------------------------
\* vpd_send in one thread while another thread closes send sockets

\* The first slot a send on port visits: every slot in turn for a flood.
FirstSlot(port) == IF port = 0 THEN 0 ELSE port - 1

\* The sender is done with slot i: a unicast returns, a flood goes on with
\* the next slot or returns after the last one.
SndNext(port, i) ==
  IF port # 0 \/ i = VIRTUAL_PORT_MAX_PEERS - 1
  THEN [pc |-> "idle", i |-> 0]
  ELSE [pc |-> "lock", i |-> i + 1]

\* vpd_send is called with a frame of valid length on port 0..N, and passes
\* its argument checks.
SndCall ==
  /\ mode = "ipc" /\ l2
  /\ snd.pc = "idle"
  /\ snd.calls < MaxOps
  /\ \E port \in 0..VIRTUAL_PORT_MAX_PEERS :
       snd' = [SndIdle EXCEPT !.pc = "lock", !.port = port,
                              !.i = FirstSlot(port), !.calls = snd.calls + 1]
  /\ UNCHANGED <<devstate, codec, uart, mtx, tx, ser, thr, duo>>

\* The locked section for one slot: active and sfd are copied from the peer
\* table.  A slot that is not configured or not open ends a unicast with
\* BmEINVAL and is skipped by a flood.
SndSnapshot ==
  /\ snd.pc = "lock"
  /\ LET a == active[snd.i]
         sfd == send_fd[snd.i]
         nx == SndNext(snd.port, snd.i)
     IN snd' = IF ~a \/ sfd < 0
               THEN [snd EXCEPT !.pc = nx.pc, !.i = nx.i, !.active = a,
                                !.sfd = sfd,
                                !.err = IF snd.port # 0 THEN "BmEINVAL" ELSE @]
               ELSE [snd EXCEPT !.pc = "sendto", !.active = a, !.sfd = sfd]
  /\ UNCHANGED <<devstate, codec, uart, mtx, tx, ser, thr, duo>>

\* sendto(sfd, ...) after the unlock, on the descriptor copied above.  On a
\* descriptor that has been closed since, it fails (EBADF) and the call
\* returns BmEIO.
SndSendto ==
  /\ snd.pc = "sendto"
  /\ LET nx == SndNext(snd.port, snd.i)
     IN snd' = [snd EXCEPT !.pc = nx.pc, !.i = nx.i,
                           !.closed_write = @ \/ snd.sfd \notin fds,
                           !.err = IF snd.sfd \notin fds THEN "BmEIO" ELSE @]
  /\ UNCHANGED <<devstate, codec, uart, mtx, tx, ser, thr, duo>>

NextSendRace ==
  \/ bm_l2_init
  \/ VpdEnable
  \/ VpdDisable
  \/ VpdEnablePort
  \/ VpdDisablePort
  \/ DisableClose
  \/ DisableJoin
  \/ DisableCloseSendFds
  \/ DisableNotify
  \/ RxCheck
  \/ RxRecvTimeout
  \/ RxRecvError
  \/ SndCall
  \/ SndSnapshot
  \/ SndSendto

SpecSendRace == Init /\ [][NextSendRace]_vars

\* C36: in no interleaving of send() with disable_port() or disable() on the
\* IPC device does send() write to an outbound handle after that handle has
\* been closed: a handle value snapshotted under the lock is never used for a
\* write once another thread has closed it.
C36_NoWriteAfterClose ==
  [][(snd.pc = "sendto" /\ snd'.pc # "sendto") => snd.sfd \in fds]_vars

\* What the lock does give: the descriptor was open when it was copied.
SnapshotWasOpen ==
  [][(snd.pc = "lock" /\ snd'.pc = "sendto")
       => (snd'.sfd \in fds /\ snd'.sfd = send_fd[snd.i] /\ active[snd.i])]_vars

\* A send that ran with no close in between wrote to an open descriptor.
SnapshotWasOpen_Witness ==
  /\ snd.calls = 1
  /\ snd.pc = "idle"
  /\ snd.port = 1
  /\ snd.sfd \in fds
  /\ snd.err = "BmOK"
  /\ ~snd.closed_write

----------------------------------------------------------------------------
\* enable and disable of the IPC device called from two threads

nonthr == <<mode, vpd_dev, vpd_ports, l2, active, send_fd, callbacks, cbs,
            s_fd, s_rx_running, rxvars, pc, rfd, ncalls, last, out, lc_last,
            up_at_call, codec, uart, mtx, tx, ser, snd, duo>>

\* socket() returns the lowest descriptor that is not open.
socket_fd(open) ==
  CHOOSE n \in RecvFd..(RecvFd + MaxOps) :
    n \notin open /\ \A m \in RecvFd..(n - 1) : m \in open

\* vpd_enable, all of it inside one locked section, on a device without
\* configured peers.
ThrEnable ==
  /\ mode = "ipc"
  /\ thr.enables < MaxOps
  /\ \E fail \in EnableFailures :
       IF enabled \/ fail = "socket"
       THEN /\ thr' = [thr EXCEPT !.enables = @ + 1]
            /\ UNCHANGED <<enabled, rx_running, recv_fd, fds, sockFile>>
       ELSE IF fail = "bind"
       THEN /\ thr' = [thr EXCEPT !.enables = @ + 1]
            /\ sockFile' = FALSE
            /\ UNCHANGED <<enabled, rx_running, recv_fd, fds>>
       ELSE IF fail = "thread"
       THEN /\ thr' = [thr EXCEPT !.enables = @ + 1]
            /\ rx_running' = FALSE
            /\ recv_fd' = -1
            /\ sockFile' = FALSE
            /\ UNCHANGED <<enabled, fds>>
       ELSE /\ recv_fd' = socket_fd(fds)
            /\ fds' = fds \cup {socket_fd(fds)}
            /\ rx_running' = TRUE
            /\ sockFile' = TRUE
            /\ enabled' = TRUE
            /\ thr' = [thr EXCEPT
                         !.enables = @ + 1,
                         !.created = @ + 1,
                         !.rx_thread = thr.created + 1,
                         !.rx[thr.created + 1] = [pc |-> "check", fd |-> -1],
                         !.overlap = @ \/ thr.dpc # "idle"]
  /\ UNCHANGED nonthr

\* The first locked section of vpd_disable.
ThrDisableBegin ==
  /\ mode = "ipc"
  /\ thr.dpc = "idle"
  /\ thr.disables < MaxOps
  /\ IF ~enabled
     THEN /\ thr' = [thr EXCEPT !.disables = @ + 1]
          /\ UNCHANGED <<enabled, rx_running, recv_fd>>
     ELSE /\ enabled' = FALSE
          /\ rx_running' = FALSE
          /\ recv_fd' = -1
          /\ thr' = [thr EXCEPT !.disables = @ + 1, !.dpc = "close",
                                !.d_rfd = recv_fd, !.undo = thr.rx_thread]
  /\ UNCHANGED <<fds, sockFile, nonthr>>

\* close(rfd); unlink(s->own_sock_path);
ThrDisableClose ==
  /\ thr.dpc = "close"
  /\ fds' = fds \ {thr.d_rfd}
  /\ sockFile' = FALSE
  /\ thr' = [thr EXCEPT !.dpc = "join"]
  /\ UNCHANGED <<enabled, rx_running, recv_fd, nonthr>>

\* pthread_join(s->rx_thread, NULL): s->rx_thread is read here, outside the
\* lock, and the call returns once that thread has ended.
ThrDisableJoin ==
  /\ thr.dpc = "join"
  /\ thr.rx[thr.rx_thread].pc = "exited"
  /\ thr' = [thr EXCEPT !.dpc = "fds", !.joined = thr.rx_thread,
                        !.rx[thr.rx_thread].pc = "joined"]
  /\ UNCHANGED <<enabled, rx_running, recv_fd, fds, sockFile, nonthr>>

\* The second locked section (no peer socket is open), the notification loop
\* (no peer is configured), and the return.
ThrDisableEnd ==
  /\ thr.dpc = "fds"
  /\ thr' = [thr EXCEPT !.dpc = "idle"]
  /\ UNCHANGED <<enabled, rx_running, recv_fd, fds, sockFile, nonthr>>

\* The locked section at the head of the loop of receive thread k.
ThrRxCheck(k) ==
  /\ thr.rx[k].pc = "check"
  /\ thr' = [thr EXCEPT !.rx[k] = IF RxLoopExit(rx_running, recv_fd)
                                  THEN [pc |-> "exited", fd |-> -1]
                                  ELSE [pc |-> "recv", fd |-> recv_fd]]
  /\ UNCHANGED <<enabled, rx_running, recv_fd, fds, sockFile, nonthr>>

\* recvfrom(fd, ...) of thread k returns: with EBADF when fd is not open,
\* which ends the thread, and otherwise with a datagram or the timeout.
ThrRxRecv(k) ==
  /\ thr.rx[k].pc = "recv"
  /\ thr' = [thr EXCEPT !.rx[k].pc = IF thr.rx[k].fd \in fds THEN "check"
                                     ELSE "exited"]
  /\ UNCHANGED <<enabled, rx_running, recv_fd, fds, sockFile, nonthr>>

ThrRxStep == \E k \in RxIds : ThrRxCheck(k) \/ ThrRxRecv(k)
ThrDisableStep == ThrDisableClose \/ ThrDisableJoin \/ ThrDisableEnd

NextThr ==
  \/ ThrEnable
  \/ ThrDisableBegin
  \/ ThrDisableClose
  \/ ThrDisableJoin
  \/ ThrDisableEnd
  \/ \E k \in RxIds : ThrRxCheck(k)
  \/ \E k \in RxIds : ThrRxRecv(k)

InitThr ==
  /\ InitDev("ipc")
  /\ ~sockFile
  /\ \A i \in Slots : ~active[i]

SpecThr == InitThr /\ [][NextThr]_vars

\* The threads keep running once they are inside a call; when the upper
\* stack calls is up to the upper stack.
LiveSpecThr == SpecThr /\ WF_vars(ThrRxStep) /\ WF_vars(ThrDisableStep)

\* The receive threads that have been created and have not ended.
AliveRx == {k \in RxIds : thr.rx[k].pc \in {"check", "recv"}}

\* The thread that disable, once in pthread_join, waits for is the one
\* started by the enable it undoes.
JoinsOwnThread == thr.dpc = "join" => thr.rx_thread = thr.undo

\* C37: under any interleaving of enable() and disable() calls made from
\* different threads on the IPC device, at most one receive thread is alive
\* at any time, every disable() joins the thread started by the enable() it
\* undoes, and every call returns.
C37_OneReceiveThread ==
  /\ [](Cardinality(AliveRx) <= 1)
  /\ []JoinsOwnThread
  /\ (thr.dpc # "idle") ~> (thr.dpc = "idle")

\* The same as long as no enable has gone through while a disable was
\* between its first locked section and its return.
OneReceiveThreadUnlessOverlap ==
  /\ [](~thr.overlap => Cardinality(AliveRx) <= 1)
  /\ [](~thr.overlap => JoinsOwnThread)
  /\ (thr.dpc # "idle") ~> (thr.dpc = "idle" \/ thr.overlap)

\* A second enable/disable pair, one call after the other, has joined the
\* second receive thread.
OneReceiveThreadUnlessOverlap_Witness ==
  /\ ~thr.overlap
  /\ thr.dpc = "idle"
  /\ thr.joined = 2
  /\ thr.rx[1].pc = "joined" /\ thr.rx[2].pc = "joined"

----------------------------------------------------------------------------
\* Two processes that are each other's peer

Other(n) == IF n = "A" THEN "B" ELSE "A"

\* Either socket file may be left on disk by an earlier run of its process.
InitDuo ==
  /\ InitVars("ipc")
  /\ ~sockFile
  /\ \A i \in Slots : ~active[i]
  /\ codec = CodecIdle /\ uart = UartIdle /\ mtx = MtxIdle
  /\ tx = TxIdle /\ ser = SerIdle /\ snd = SndIdle /\ thr = ThrIdle
  /\ \E stale \in [Nodes -> BOOLEAN] :
       duo = [n \in Nodes |-> [NodeIdle EXCEPT !.file = stale[n]]]

\* vpd_enable in process n; fail says which of socket(), bind() and
\* pthread_create() fails, sfdOk whether socket() for the peer's send socket
\* succeeds.
DuoEnable(n, fail, sfdOk) ==
  /\ ~duo[n].enabled
  /\ duo' = [duo EXCEPT ![n] =
       IF fail = "socket" THEN @
       ELSE IF fail = "bind" THEN [@ EXCEPT !.file = FALSE]
       ELSE IF fail = "thread"
       THEN [@ EXCEPT !.file = FALSE, !.send_fd = @ \/ sfdOk]
       ELSE [@ EXCEPT !.file = TRUE, !.bound = TRUE, !.enabled = TRUE,
                      !.send_fd = @ \/ sfdOk]]
  /\ UNCHANGED <<devstate, codec, uart, mtx, tx, ser, snd, thr>>

\* vpd_retry_negotiation(1) in process n, called by its upper stack as long
\* as the port has not been reported up: access() on the peer's socket path,
\* then socket() if no send socket is open (sockOk), then link_change(0,
\* true).
DuoRetry(n, sockOk) ==
  /\ duo[n].enabled
  /\ duo[n].up = {}
  /\ LET tries == IF duo[n].tries < MaxOps THEN duo[n].tries + 1 ELSE MaxOps
     IN duo' = [duo EXCEPT ![n] =
          IF ~duo[Other(n)].file THEN [@ EXCEPT !.tries = tries]
          ELSE IF ~duo[n].send_fd /\ ~sockOk THEN [@ EXCEPT !.tries = tries]
          ELSE [@ EXCEPT !.tries = tries,
                         !.send_fd = TRUE,
                         !.up = @ \cup {0},
                         !.early = @ \/ ~duo[Other(n)].bound]]
  /\ UNCHANGED <<devstate, codec, uart, mtx, tx, ser, snd, thr>>

NextDuo ==
  \E n \in Nodes :
    \/ \E fail \in EnableFailures, sfdOk \in BOOLEAN : DuoEnable(n, fail, sfdOk)
    \/ \E sockOk \in BOOLEAN : DuoRetry(n, sockOk)

SpecDuo == InitDuo /\ [][NextDuo]_vars

\* Both processes get enabled, and each upper stack keeps calling
\* retry_negotiation; the system calls do not fail for ever.
LiveSpecDuo ==
  /\ SpecDuo
  /\ \A n \in Nodes : /\ WF_vars(DuoEnable(n, "none", TRUE))
                      /\ WF_vars(DuoRetry(n, TRUE))

\* C35: if two nodes A and B list each other as peers, both enable (in either
\* order), and each upper stack keeps calling retry_negotiation on its ports
\* that are not yet up, then eventually each node has delivered
\* link_change(up) for the port of the other node; before the peer has bound
\* its receive endpoint, retry_negotiation delivers no link_change.
C35_BothLinksComeUp ==
  /\ <>(\A n \in Nodes : 1 \in duo[n].up)
  /\ [](\A n \in Nodes : ~duo[n].early)

\* What the code does: each process eventually reports its link up, under
\* the slot index 0 of the peer, and not as long as the peer's socket path
\* does not exist.
BothLinksComeUpBySlot ==
  /\ <>(\A n \in Nodes : duo[n].up = {0})
  /\ [][\A n \in Nodes :
          duo'[n].up # duo[n].up => duo[Other(n)].file]_vars

\* With no socket file left over from an earlier run, no link is reported up
\* before the peer has bound its receive socket.
NoEarlyLinkUpWithoutStaleFile ==
  (\A n \in Nodes : ~duo[n].enabled /\ ~duo[n].file)
    => [](\A n \in Nodes : ~duo[n].early)

\* Both links are up, each reported after the peer had bound.
BothLinksComeUpBySlot_Witness ==
  \A n \in Nodes : duo[n].up = {0} /\ ~duo[n].early /\ duo[n].bound

====
